---- MODULE Spec2Model ----
(***************************************************************************)
(* Model of the client-side derivations of StockageDashboard:              *)
(*   - top5IN / top5OUT, the Top-5 product flows of the fast zone,         *)
(*   - svgPoints, the projection of the storage map onto the SVG canvas.   *)
(* Both are useMemo computations: pure functions of the component state    *)
(* (slotting, mapItems) that run during render.  A specification draws the *)
(* state a response has set from a bounded family of responses and the     *)
(* Render action applies the computation.                                  *)
(*                                                                         *)
(* The other components are state machines of their handlers:              *)
(*   - CarrierSimpleCard.onPredict and the Top 3 it shows,                 *)
(*   - the chart data of TransportDashboard and SupervisorDashboard and    *)
(*     the refreshes of SupervisorDashboard,                               *)
(*   - the batch runners of the pipeline.                                  *)
(* An async handler is an action that starts it and an action for the      *)
(* continuation that runs once its awaited requests have settled, the      *)
(* results of the requests being the inputs of that action.                *)
(***************************************************************************)
EXTENDS Integers, Sequences, FiniteSets, TLC

VARIABLES
    slotting,   \* useState<SlottingResponse | null>
    error,      \* useState<string | null>, "" standing for null
    mapItems,   \* useState<MapItem[]>
    render,     \* "pending": state set, render not run; "done"; "crashed": render threw
    top5IN,     \* memoized value of top5IN after the render
    top5OUT,    \* memoized value of top5OUT after the render
    svgPoints,  \* memoized value of svgPoints after the render
    carrierCard,  \* CarrierSimpleCard: [loading, error, topK]
    recoCall,     \* the recoSimpleRecommend call of onPredict, with its lane's candidates
    transport,    \* TransportDashboard: [charts, loading, error]
    chartsCall,   \* the request of fetchCharts, with its response once settled
    supervisor,   \* SupervisorDashboard: kpiTop, the alert counters, loadingAlerts, errAlerts, charts
    supCalls,     \* the refreshes of SupervisorDashboard in flight, with the last responses
    batch,        \* the run of a batch runner of the pipeline
    index,        \* Index: isAuthenticated, userProfile, currentView, pendingAnchor, the frame callback
    commandes,      \* CommandesDashboard: forecast, kpi, ops, file, isTraining, loading, error, chartData
    commandesCalls, \* its refreshAll and handleRetrain in flight, with the last results
    stockage,       \* StockageDashboard: loading, stockageStats, zones, optimisations,
                    \* emplacementsCritiques, selectedLoc, locDetails
    stockageCalls   \* its refreshAll, handleOptimize and fetchLocDetail in flight

stockageVars == <<slotting, error, mapItems, render, top5IN, top5OUT, svgPoints>>
carrierVars == <<carrierCard, recoCall>>
dashboardVars == <<transport, chartsCall, supervisor, supCalls>>
batchVars == <<batch>>
indexVars == <<index>>
commandesVars == <<commandes, commandesCalls>>
stockagePageVars == <<stockage, stockageCalls>>
pageVars == <<indexVars, commandesVars, stockagePageVars>>
vars == <<stockageVars, carrierVars, dashboardVars, batchVars, pageVars>>

(***************************************************************************)
(* Bounds of the model.                                                    *)
(***************************************************************************)
MaxLen == 3        \* longest sample list drawn entry by entry
MaxIndex == 12     \* largest integer whose decimal string is recognised

Min(a, b) == IF a < b THEN a ELSE b
Max(a, b) == IF a > b THEN a ELSE b

SeqsUpTo(S, n) == UNION {[1..k -> S] : k \in 0..n}

(***************************************************************************)
(* JavaScript values.  A value is a record with its type tag t, its string *)
(* content s and its numeric content n.                                    *)
(***************************************************************************)
Str(s) == [t |-> "string", s |-> s, n |-> 0]
Num(n) == [t |-> "number", s |-> "", n |-> n]
Null == [t |-> "null", s |-> "", n |-> 0]
Fn(name) == [t |-> "function", s |-> name, n |-> 0]
ObjectPrototype == [t |-> "object", s |-> "Object.prototype", n |-> 0]

\* A JSON object is the function of its fields; a JSON array is a sequence.
Obj(fields) == [t |-> "object", fields |-> fields]
NoFields == [name \in {} |-> Null]
HasField(v, name) == v.t = "object" /\ name \in DOMAIN v.fields

\* v?.name
Field(v, name) == IF HasField(v, name) THEN v.fields[name] ELSE Null

\* ToBoolean: null/undefined, "" and 0 are falsy; functions and objects truthy.
Truthy(v) ==
    CASE v.t = "string" -> v.s # ""
      [] v.t = "number" -> v.n # 0
      [] v.t = "null" -> FALSE
      [] OTHER -> TRUE

\* a || b
OrElse(a, b) == IF Truthy(a) THEN a ELSE b

Digit(d) ==
    CASE d = 0 -> "0" [] d = 1 -> "1" [] d = 2 -> "2" [] d = 3 -> "3"
      [] d = 4 -> "4" [] d = 5 -> "5" [] d = 6 -> "6" [] d = 7 -> "7"
      [] d = 8 -> "8" [] d = 9 -> "9"

\* Number::toString of a non-negative integer.
RECURSIVE NumToString(_)
NumToString(n) ==
    IF n < 10 THEN Digit(n) ELSE NumToString(n \div 10) \o Digit(n % 10)

\* ToString of a value.
JsToString(v) ==
    CASE v.t = "string" -> v.s
      [] v.t = "number" -> NumToString(v.n)
      [] v.t = "null" -> "null"
      [] v.t = "function" -> "function " \o v.s \o "() { [native code] }"
      [] OTHER -> "[object Object]"

\* a + b: numeric addition of two numbers, string concatenation otherwise.
Plus(a, b) ==
    IF a.t = "number" /\ b.t = "number"
    THEN Num(a.n + b.n)
    ELSE Str(JsToString(a) \o JsToString(b))

\* The decimal strings of 0..MaxIndex.
IndexStrings == [i \in 0..MaxIndex |-> NumToString(i)]

IsArrayIndex(key) == \E i \in DOMAIN IndexStrings : IndexStrings[i] = key
ArrayIndexOf(key) == CHOOSE i \in DOMAIN IndexStrings : IndexStrings[i] = key

\* String.prototype.toUpperCase on the zone codes.
ToUpperCase(s) ==
    CASE s = "a" -> "A" [] s = "b" -> "B" [] s = "c" -> "C" [] s = "d" -> "D"
      [] OTHER -> s

(***************************************************************************)
(* The aggregation object  const agg: Record<string, number> = {}          *)
(* as the sequence of its own properties in creation order.                *)
(***************************************************************************)
HasOwn(agg, key) == \E i \in 1..Len(agg) : agg[i].ref = key
OwnIndex(agg, key) == CHOOSE i \in 1..Len(agg) : agg[i].ref = key

\* What a read of a property that {} does not own finds on Object.prototype.
Inherited(key) ==
    CASE key = "constructor" -> Fn("Object")
      [] key = "__proto__" -> ObjectPrototype
      [] key \in {"toString", "valueOf", "hasOwnProperty", "isPrototypeOf",
                  "propertyIsEnumerable", "toLocaleString"} -> Fn(key)
      [] OTHER -> Null

\* agg[key]
Get(agg, key) ==
    IF HasOwn(agg, key) THEN agg[OwnIndex(agg, key)].qty ELSE Inherited(key)

\* agg[key] = v.  The __proto__ setter ignores a value that is neither an
\* object nor null (v is a string here) and creates no own property.
Put(agg, key, v) ==
    IF HasOwn(agg, key) THEN [agg EXCEPT ![OwnIndex(agg, key)].qty = v]
    ELSE IF key = "__proto__" THEN agg
    ELSE Append(agg, [ref |-> key, qty |-> v])

\* The array-index keys of agg in ascending numeric order.
RECURSIVE IndexEntries(_, _)
IndexEntries(agg, todo) ==
    IF todo = {} THEN <<>>
    ELSE LET i == CHOOSE j \in todo :
                      \A k \in todo : ArrayIndexOf(agg[j].ref) <= ArrayIndexOf(agg[k].ref)
         IN <<agg[i]>> \o IndexEntries(agg, todo \ {i})

IsIndexEntry(e) == IsArrayIndex(e.ref)
IsNameEntry(e) == ~IsArrayIndex(e.ref)

\* Object.entries(agg).map(([ref, qty]) => ({ ref, qty })): array-index keys
\* first, ascending, then the other keys in creation order.
OwnEntries(agg) ==
    IndexEntries(agg, {i \in 1..Len(agg) : IsIndexEntry(agg[i])})
        \o SelectSeq(agg, IsNameEntry)

(***************************************************************************)
(* The loop of top5IN / top5OUT over slotting.sample.                      *)
(***************************************************************************)
FastZone == "A"
NoRef == "?"

ZoneOf(s, dir) == IF dir = "in" THEN s.to_zone ELSE s.from_zone

\* (s.to_zone || "").toUpperCase() raises a TypeError on a null entry and on
\* a zone that is truthy and not a string.
Raises(s, dir) == s.isNull \/ OrElse(ZoneOf(s, dir), Str("")).t # "string"

\* The zone test without .toUpperCase().
PassesZoneCaseSensitive(s, dir) == OrElse(ZoneOf(s, dir), Str("")).s = FastZone

\* (s.to_zone || "").toUpperCase() === "A"
PassesZone(s, dir) == ToUpperCase(OrElse(ZoneOf(s, dir), Str("")).s) = FastZone

\* const key = s.referenceproduit || "?"
KeyOf(s) == JsToString(OrElse(s.referenceproduit, Str(NoRef)))

\* agg[key] = (agg[key] || 0) + (s.move_qty || 0)
Accumulate(agg, s) ==
    Put(agg, KeyOf(s),
        Plus(OrElse(Get(agg, KeyOf(s)), Num(0)), OrElse(s.move_qty, Num(0))))

RECURSIVE AggLoop(_, _, _)
AggLoop(agg, rest, dir) ==
    IF rest = <<>> THEN [threw |-> FALSE, agg |-> agg]
    ELSE IF Raises(Head(rest), dir) THEN [threw |-> TRUE, agg |-> agg]
    ELSE IF PassesZone(Head(rest), dir)
         THEN AggLoop(Accumulate(agg, Head(rest)), Tail(rest), dir)
         ELSE AggLoop(agg, Tail(rest), dir)

(***************************************************************************)
(* .sort((a, b) => b.qty - a.qty).slice(0, 5)                              *)
(***************************************************************************)
TopK == 5

\* ToNumber of a quantity is NaN for a string that is no decimal literal.
IsNaN(v) == v.t # "number" /\ ~(v.t = "string" /\ (v.s = "" \/ IsArrayIndex(v.s)))
ToNumber(v) ==
    IF v.t = "number" THEN v.n
    ELSE IF v.s = "" THEN 0 ELSE ArrayIndexOf(v.s)

\* The sign of the comparator b.qty - a.qty; sort reads a NaN result as +0.
Compare(a, b) ==
    IF IsNaN(a.qty) \/ IsNaN(b.qty) THEN 0
    ELSE IF ToNumber(b.qty) < ToNumber(a.qty) THEN -1
    ELSE IF ToNumber(b.qty) > ToNumber(a.qty) THEN 1
    ELSE 0

\* A consistent comparator orders the elements: "compares equal" is transitive.
ConsistentComparator(es) ==
    \A i, j, k \in 1..Len(es) :
        (Compare(es[i], es[j]) = 0 /\ Compare(es[j], es[k]) = 0)
            => Compare(es[i], es[k]) = 0

\* x goes after the last element that does not sort after it.
InsertSorted(sorted, x) ==
    LET p == CHOOSE m \in 0..Len(sorted) :
                 /\ (m > 0 => Compare(sorted[m], x) <= 0)
                 /\ \A i \in (m + 1)..Len(sorted) : Compare(sorted[i], x) > 0
    IN SubSeq(sorted, 1, p) \o <<x>> \o SubSeq(sorted, p + 1, Len(sorted))

\* Array.prototype.sort is stable (ES2019).
RECURSIVE StableSort(_)
StableSort(es) ==
    IF es = <<>> THEN <<>>
    ELSE InsertSorted(StableSort(SubSeq(es, 1, Len(es) - 1)), es[Len(es)])

\* With a comparator that is not consistent the order is implementation-defined.
SortOutcomes(es) ==
    IF ConsistentComparator(es) THEN {StableSort(es)}
    ELSE {[i \in 1..Len(es) |-> es[p[i]]] : p \in Permutations(1..Len(es))}

\* The slice cut one entry too late.
SliceOneMore(es) == SubSeq(es, 1, Min(TopK + 1, Len(es)))

\* .slice(0, 5)
Slice(es) == SubSeq(es, 1, Min(TopK, Len(es)))

\* The useMemo body of top5IN (dir = "in") and top5OUT (dir = "out"): whether
\* it raises, and the values it can return.
TopFlows(sl, dir) ==
    IF sl.isNull \/ ~sl.sampleIsArray THEN [threw |-> FALSE, outcomes |-> {<<>>}]
    ELSE LET r == AggLoop(<<>>, sl.sample, dir)
         IN IF r.threw THEN [threw |-> TRUE, outcomes |-> {}]
            ELSE [threw |-> FALSE,
                  outcomes |-> {Slice(o) : o \in SortOutcomes(OwnEntries(r.agg))}]

(***************************************************************************)
(* svgPoints: the projection of mapItems onto the SVG canvas.              *)
(* A coordinate of a MapItem is Num(v) or Null; occupancy_pct is held in   *)
(* hundredths (50 stands for 0.5).  A canvas coordinate, being a quotient, *)
(* is the exact fraction num / den.                                        *)
(***************************************************************************)
W == 800
H == 240
pad == 16
cols == 10
cellW == 72
cellH == 40
MaxHeight == 280

IsNumber(v) == v.t = "number"

\* (mapItems || []).filter((d) => typeof d.x === "number" && typeof d.y === "number")
HasXY(d) == IsNumber(d.x) /\ IsNumber(d.y)
\* (mapItems || []).filter((d) => typeof d.lat === "number" && typeof d.lon === "number")
HasLL(d) == IsNumber(d.lat) /\ IsNumber(d.lon)
\* The x/y filter without the test of y.
HasX(d) == IsNumber(d.x)
ItemsWithX(items) == SelectSeq(items, HasX)

ItemsXY(items) == SelectSeq(items, HasXY)
ItemsLL(items) == SelectSeq(items, HasLL)

\* Math.min(...vs), Math.max(...vs) of a non-empty array of numbers.
MinOf(vs) == CHOOSE m \in {vs[i] : i \in 1..Len(vs)} : \A i \in 1..Len(vs) : m <= vs[i]
MaxOf(vs) == CHOOSE m \in {vs[i] : i \in 1..Len(vs)} : \A i \in 1..Len(vs) : m >= vs[i]

\* The span without || 1.
SpanUnguarded(lo, hi) == hi - lo

\* (max - min || 1)
Span(lo, hi) == IF hi - lo # 0 THEN hi - lo ELSE 1

\* pad + ((v - lo) / span) * (extent - pad * 2)
Rescale(v, lo, hi, extent) ==
    [num |-> pad * Span(lo, hi) + (v - lo) * (extent - pad * 2), den |-> Span(lo, hi)]

\* The vertical rescale without the inversion (1 - ...).
RescaleUpright(v, lo, hi, extent) ==
    [num |-> pad * Span(lo, hi) + (v - lo) * (extent - pad * 2), den |-> Span(lo, hi)]

\* pad + (1 - (v - lo) / span) * (extent - pad * 2)
RescaleInverted(v, lo, hi, extent) ==
    [num |-> pad * Span(lo, hi) + (Span(lo, hi) - (v - lo)) * (extent - pad * 2),
     den |-> Span(lo, hi)]

\* The channel truncated (Math.floor) instead of rounded.
ChannelTruncated(from, to, hundredths) ==
    (from * 100 + (to - from) * hundredths) \div 100

\* Math.round(from + (to - from) * t), t = hundredths / 100; rounds half up.
Channel(from, to, hundredths) ==
    (2 * (from * 100 + (to - from) * hundredths) + 100) \div 200

\* colorForOccupancy(p): t = Math.max(0, Math.min(1, p))
colorForOccupancy(p) ==
    LET t == Max(0, Min(100, p))
    IN <<Channel(16, 239, t), Channel(185, 68, t), Channel(129, 68, t)>>

\* Math.max(0, Math.min(1, d.occupancy_pct || 0))
Occ(d) == Max(0, Min(100, d.occupancy_pct))

\* The radius without Math.min(12, ...).
RadiusUncapped(d) == [num |-> 4 * 50 + Max(0, d.n_locations), den |-> 50]

\* 4 + Math.min(12, Math.max(0, d.n_locations / 50))
Radius(d) == [num |-> 4 * 50 + Min(12 * 50, Max(0, d.n_locations)), den |-> 50]

\* `${d.support_label ?? "?"}-xy-${i}`
PointKey(d, via, i) ==
    [label |-> IF d.support_label.t = "null" THEN "?" ELSE d.support_label.s,
     via |-> via, i |-> i]

Point(d, via, i, x, y) ==
    [key |-> PointKey(d, via, i), x |-> x, y |-> y, r |-> Radius(d),
     fill |-> colorForOccupancy(Occ(d))]

\* The x/y branch.
ProjectXY(its) ==
    LET xs == [i \in 1..Len(its) |-> its[i].x.n]
        ys == [i \in 1..Len(its) |-> its[i].y.n]
    IN [viewBox |-> <<W, H>>, height |-> H,
        points |-> [i \in 1..Len(its) |->
            Point(its[i], "xy", i - 1,
                  Rescale(its[i].x.n, MinOf(xs), MaxOf(xs), W),
                  RescaleInverted(its[i].y.n, MinOf(ys), MaxOf(ys), H))]]

\* The lat/lon branch: lon gives x, lat gives y.
ProjectLL(its) ==
    LET lats == [i \in 1..Len(its) |-> its[i].lat.n]
        lons == [i \in 1..Len(its) |-> its[i].lon.n]
    IN [viewBox |-> <<W, H>>, height |-> H,
        points |-> [i \in 1..Len(its) |->
            Point(its[i], "ll", i - 1,
                  Rescale(its[i].lon.n, MinOf(lons), MaxOf(lons), W),
                  RescaleInverted(its[i].lat.n, MinOf(lats), MaxOf(lats), H))]]

\* The grid fallback with rows = Math.floor(all.length / cols).
ProjectGridRowsFloored(all) ==
    LET rows == Len(all) \div cols
        Wg == pad * 2 + cols * cellW
        Hg == pad * 2 + rows * cellH
    IN [viewBox |-> <<Wg, Hg>>, height |-> Min(MaxHeight, Hg),
        points |-> [i \in 1..Len(all) |->
            Point(all[i], "grid", i - 1,
                  [num |-> pad + ((i - 1) % cols) * cellW + cellW \div 2, den |-> 1],
                  [num |-> pad + ((i - 1) \div cols) * cellH + cellH \div 2, den |-> 1])]]

\* The grid fallback over all of mapItems.
ProjectGrid(all) ==
    LET rows == (Len(all) + cols - 1) \div cols
        Wg == pad * 2 + cols * cellW
        Hg == pad * 2 + rows * cellH
    IN [viewBox |-> <<Wg, Hg>>, height |-> Min(MaxHeight, Hg),
        points |-> [i \in 1..Len(all) |->
            Point(all[i], "grid", i - 1,
                  [num |-> pad + ((i - 1) % cols) * cellW + cellW \div 2, den |-> 1],
                  [num |-> pad + ((i - 1) \div cols) * cellH + cellH \div 2, den |-> 1])]]

\* The strategies tried in the other order: lat/lon before x/y.
ProjectGeographicFirst(items) ==
    IF Len(ItemsLL(items)) >= 2 THEN ProjectLL(ItemsLL(items))
    ELSE IF Len(ItemsXY(items)) >= 2 THEN ProjectXY(ItemsXY(items))
    ELSE ProjectGrid(items)

\* The useMemo body of svgPoints.
Project(items) ==
    IF Len(ItemsXY(items)) >= 2 THEN ProjectXY(ItemsXY(items))
    ELSE IF Len(ItemsLL(items)) >= 2 THEN ProjectLL(ItemsLL(items))
    ELSE ProjectGrid(items)

(***************************************************************************)
(* The state of the other components after construction (useState).        *)
(***************************************************************************)
\* CarrierSimpleCard: loading false, error null, topK [].
NoCall == [status |-> "none", candidates |-> <<>>]
InitCarrierCard ==
    /\ carrierCard = [loading |-> FALSE, error |-> Null, topK |-> <<>>]
    /\ recoCall = NoCall

\* What a top KPI shows: the em dash, an integer or a percentage.
Dash == [kind |-> "dash", n |-> 0]
NoResponses == [kpis |-> <<>>, alerts |-> <<>>, charts |-> <<>>]
NoRuns == [kpis |-> {}, alerts |-> {}, charts |-> {}]
NoneShown == [kpis |-> 0, alerts |-> 0, charts |-> 0]

\* TransportDashboard: charts null, loading true, error null.
\* SupervisorDashboard: dashes, counters at 0, no loading, no error, charts null.
InitDashboards ==
    /\ transport = [charts |-> Null, loading |-> TRUE, error |-> Null]
    /\ chartsCall = [status |-> "none", response |-> Null]
    /\ supervisor =
           [kpiTop |-> [distinctSkus |-> Dash, occupancyRate |-> Dash,
                        deliveries |-> Dash, operators |-> Dash],
            latePct |-> 0, anomCount |-> 0, zonesCritical |-> 0,
            locsAttention |-> 0, ordersWeek |-> 0,
            loadingAlerts |-> FALSE, errAlerts |-> Null, charts |-> Null]
    /\ supCalls = [started |-> 0, kpis |-> 0, alerts |-> 0, charts |-> 0,
                   last |-> NoResponses, runs |-> NoRuns, shown |-> NoneShown]

\* No batch runner launched.  lastExit is ERRORLEVEL ($LASTEXITCODE in the
\* PowerShell script); exitCode is the exit code of the runner, -1 before.
BatchIdle ==
    [script |-> "none", pc |-> "idle", mailerExists |-> FALSE, invocations |-> 0,
     pipelineExit |-> 0, lastExit |-> 0, ERR |-> 0, log |-> <<>>, console |-> <<>>,
     SUBJECT |-> "", body |-> <<>>, mailed |-> FALSE, exitCode |-> -1]
InitBatch == batch = BatchIdle

\* Index: nobody logged in, the view "dashboard", no anchor, no frame callback
\* requested.  anchors counts the calls of handleNavigate that carry an
\* anchor; stale tells that the view was changed by something else since the
\* last of them; scrolls lists the lookups of the frame callback.
NoAnchor == Null
NoFrame == [scheduled |-> FALSE, id |-> ""]
InitIndex ==
    index = [isAuthenticated |-> FALSE, userProfile |-> "", currentView |-> "dashboard",
             pendingAnchor |-> NoAnchor, raf |-> NoFrame,
             anchors |-> 0, requested |-> "dashboard", stale |-> FALSE, scrolls |-> <<>>]

\* CommandesDashboard: no data, no file, loading true; the effect of the
\* mount has not run yet.
NoResults == [forecast |-> Null, kpi |-> Null, ops |-> <<>>, charts |-> Null]
InitCommandes ==
    /\ commandes = [forecast |-> Null, kpi |-> Obj(NoFields), ops |-> <<>>, file |-> Null,
                    isTraining |-> FALSE, loading |-> TRUE, error |-> Null,
                    chartData |-> Null]
    /\ commandesCalls = [mounted |-> FALSE, pending |-> 0, retrain |-> "idle",
                         upload |-> "none", last |-> NoResults]

\* StockageDashboard: loading true, dashes, empty lists, no location
\* selected; the effect of the mount has not run yet.  last is the operation
\* that ended last, with the bodies it received.
NoStats == [occupancy |-> Dash, active |-> Dash, skus |-> Dash, saturated |-> Dash]
Locations == {"A-01", "B-02"}
NoOperation ==
    [op |-> "none", failed |-> FALSE,
     k |-> Null, z |-> Null, hs |-> Null, slot |-> Null, map |-> Null]
InitStockagePage ==
    /\ stockage = [loading |-> TRUE, stockageStats |-> NoStats, zones |-> <<>>,
                   optimisations |-> <<>>, emplacementsCritiques |-> <<>>,
                   selectedLoc |-> Null, locDetails |-> Null]
    /\ stockageCalls = [mounted |-> FALSE, refreshAll |-> 0, handleOptimize |-> 0,
                        details |-> [loc \in Locations |-> 0], last |-> NoOperation]

InitPages == InitIndex /\ InitCommandes /\ InitStockagePage

(***************************************************************************)
(* The render: the three useMemo computations run; an exception raised in  *)
(* one of them leaves the component without a rendered value.              *)
(***************************************************************************)
NotComputed == <<>>
NoPoints == [viewBox |-> <<0, 0>>, height |-> 0, points |-> <<>>]

Render ==
    /\ render = "pending"
    /\ IF TopFlows(slotting, "in").threw \/ TopFlows(slotting, "out").threw
       THEN /\ render' = "crashed"
            /\ UNCHANGED <<top5IN, top5OUT, svgPoints>>
       ELSE /\ render' = "done"
            /\ top5IN' \in TopFlows(slotting, "in").outcomes
            /\ top5OUT' \in TopFlows(slotting, "out").outcomes
            /\ svgPoints' = Project(mapItems)
    /\ UNCHANGED <<slotting, error, mapItems>>
    /\ UNCHANGED <<carrierVars, dashboardVars, batchVars, pageVars>>

\* What the IN list of the card shows (TransportDashboard.tsx): the entries of
\* top5IN, or the placeholder line and no entry when there is none.
ListedIN(top) == top

\* What the IN list shows in the other version of the component: the entries
\* of top5IN followed by five fixed entries.
FixedIN ==
    << [ref |-> "8BSFSA", qty |-> Num(115)], [ref |-> "BLJLMQ", qty |-> Num(123)],
       [ref |-> "U8203G", qty |-> Num(100)], [ref |-> "ZX6MUV", qty |-> Num(112)],
       [ref |-> "0SJH1Z", qty |-> Num(188)] >>
ListedINFixed(top) == top \o FixedIN

\* What the OUT list shows, in both versions.
ListedOUT(top) == top

(***************************************************************************)
(* Responses of GET /storage/slotting/plan.                                *)
(***************************************************************************)
Move(ref, from, to, qty) ==
    [isNull |-> FALSE, referenceproduit |-> Str(ref), from_zone |-> Str(from),
     to_zone |-> Str(to), move_qty |-> Num(qty)]
NullEntry ==
    [isNull |-> TRUE, referenceproduit |-> Null, from_zone |-> Null,
     to_zone |-> Null, move_qty |-> Null]

NoSlotting == [isNull |-> TRUE, sampleIsArray |-> FALSE, sample |-> <<>>]
NoSample == [isNull |-> FALSE, sampleIsArray |-> FALSE, sample |-> <<>>]
Response(sample) == [isNull |-> FALSE, sampleIsArray |-> TRUE, sample |-> sample]

Quantities == {1, 2}

\* Moves into the fast zone whose references are plain names, decimal
\* integers, names of Object.prototype members and the empty string.
OrderingMoves ==
    {Move(r, "B", "A", q) :
        r \in {"P", "Q", "10", "2", "constructor", "__proto__", ""}, q \in Quantities}

\* Moves between zones written in either case.
ZoneMoves ==
    {Move(r, z[1], z[2], 1) :
        r \in {"P", "2"},
        z \in {<<"B", "A">>, <<"B", "a">>, <<"a", "B">>, <<"A", "A">>}}

\* A plan of six products, preceded by further moves.
Bulk ==
    << Move("R", "B", "A", 3), Move("2", "A", "A", 1), Move("P", "B", "a", 1),
       Move("S", "A", "A", 2), Move("10", "B", "A", 2), Move("Q", "A", "A", 2) >>
BulkPrefixMoves ==
    {Move(r, z[1], z[2], q) :
        r \in {"P", "10", "T", ""}, z \in {<<"B", "A">>, <<"A", "A">>}, q \in Quantities}

\* Entries that are not of the declared shape.
MalformedEntries ==
    { NullEntry,
      [Move("P", "B", "A", 1) EXCEPT !.to_zone = Num(1)],
      [Move("P", "B", "A", 1) EXCEPT !.to_zone = Null, !.from_zone = Null],
      [Move("P", "B", "A", 1) EXCEPT !.referenceproduit = Null],
      [Move("P", "B", "A", 1) EXCEPT !.move_qty = Null],
      [Move("P", "B", "A", 1) EXCEPT !.move_qty = Str("abc")],
      Move("P", "A", "A", 1) }

Samples ==
    SeqsUpTo(OrderingMoves, MaxLen) \cup SeqsUpTo(ZoneMoves, MaxLen)
        \cup {p \o Bulk : p \in SeqsUpTo(BulkPrefixMoves, MaxLen - 1)}
        \cup SeqsUpTo(MalformedEntries, MaxLen)

SlottingStates == {NoSlotting, NoSample} \cup {Response(s) : s \in Samples}

InitTopFlows ==
    /\ slotting \in SlottingStates
    /\ error = ""
    /\ mapItems = <<>>
    /\ render = "pending"
    /\ top5IN = NotComputed
    /\ top5OUT = NotComputed
    /\ svgPoints = NoPoints
    /\ InitCarrierCard /\ InitDashboards /\ InitBatch /\ InitPages

SpecTopFlows == InitTopFlows /\ [][Render]_vars

(***************************************************************************)
(* Vocabulary of the properties of the Top-5 flows, stated on the move     *)
(* list independently of the loop above.                                   *)
(***************************************************************************)
Moves == IF slotting.isNull \/ ~slotting.sampleIsArray THEN <<>> ELSE slotting.sample
Directions == {"in", "out"}
Result(dir) == IF dir = "in" THEN top5IN ELSE top5OUT

\* The entry is a move record of the declared shape: strings and a number.
IsMoveRecord(s) ==
    /\ ~s.isNull
    /\ s.referenceproduit.t = "string" /\ s.from_zone.t = "string"
    /\ s.to_zone.t = "string" /\ s.move_qty.t = "number"
WellFormed == \A i \in 1..Len(Moves) : IsMoveRecord(Moves[i])

\* The zone of the move in the direction equals the fast zone, case ignored.
TargetZoneField(s, dir) == IF dir = "in" THEN s.to_zone ELSE s.from_zone
MatchesZone(s, dir) == ~s.isNull /\ TargetZoneField(s, dir) \in {Str("A"), Str("a")}
Matching(dir) == {i \in 1..Len(Moves) : MatchesZone(Moves[i], dir)}

HasNoReference(s) == s.referenceproduit \in {Null, Str("")}
\* The product a move counts for: its reference, or the sentinel.
ProductOf(s) == IF HasNoReference(s) THEN "?" ELSE s.referenceproduit.s
Products(dir) == {ProductOf(Moves[i]) : i \in Matching(dir)}
FirstSeen(p, dir) ==
    CHOOSE i \in Matching(dir) :
        /\ ProductOf(Moves[i]) = p
        /\ \A j \in Matching(dir) : ProductOf(Moves[j]) = p => i <= j

RECURSIVE SumQty(_, _)
SumQty(p, todo) ==
    IF todo = {} THEN 0
    ELSE LET i == CHOOSE j \in todo : TRUE
         IN (IF ProductOf(Moves[i]) = p THEN Moves[i].move_qty.n ELSE 0)
                + SumQty(p, todo \ {i})

Refs(r) == {r[i].ref : i \in 1..Len(r)}
AllNumeric(r) == \A i \in 1..Len(r) : r[i].qty.t = "number"

\* C1: for every list of move records the Top-5 result is in descending order
\* of summed quantity, and products with equal sums come in the order in which
\* they were first seen in the list.
C1_DescendingFirstSeen ==
    (render = "done" /\ WellFormed) =>
        \A dir \in Directions :
            AllNumeric(Result(dir)) =>
                \A i, j \in 1..Len(Result(dir)) :
                    i < j =>
                        \/ Result(dir)[i].qty.n > Result(dir)[j].qty.n
                        \/ /\ Result(dir)[i].qty.n = Result(dir)[j].qty.n
                           /\ Result(dir)[i].ref \in Products(dir)
                           /\ Result(dir)[j].ref \in Products(dir)
                           /\ FirstSeen(Result(dir)[i].ref, dir)
                                  < FirstSeen(Result(dir)[j].ref, dir)

\* C2, as claimed: the result has at most 5 entries and each entry's product
\* is the product reference of some move that passed the zone filter.
C2_OnlyFilteredReferences ==
    (render = "done" /\ WellFormed) =>
        \A dir \in Directions :
            /\ Len(Result(dir)) <= 5
            /\ \A e \in Refs(Result(dir)) :
                   \E i \in Matching(dir) : Moves[i].referenceproduit = Str(e)

\* C2, amended: the result has at most 5 entries and each entry's key is the
\* product reference of some move that passed the zone filter, or is the
\* sentinel "?" while some such move has an empty or missing reference.
C2_FilteredReferencesOrSentinel ==
    render = "done" =>
        \A dir \in Directions :
            /\ Len(Result(dir)) <= 5
            /\ \A e \in Refs(Result(dir)) :
                   \/ \E i \in Matching(dir) : Moves[i].referenceproduit = Str(e)
                   \/ /\ e = "?"
                      /\ \E i \in Matching(dir) : HasNoReference(Moves[i])

\* More than 5 products pass the filter, 5 are returned, the sentinel among them.
C2_Witness ==
    /\ render = "done"
    /\ Cardinality(Products("in")) > 5
    /\ Len(top5IN) = 5
    /\ "?" \in Refs(top5IN)
    /\ \E i \in Matching("in") : Moves[i].referenceproduit = Str("")

\* C3: the value reported for a product is the sum of the quantities of the
\* moves of that product that passed the zone filter.
C3_ValueIsSum ==
    (render = "done" /\ WellFormed) =>
        \A dir \in Directions :
            \A i \in 1..Len(Result(dir)) :
                Result(dir)[i].qty = Num(SumQty(Result(dir)[i].ref, Matching(dir)))

\* C4: direction "in" keeps exactly the moves whose to_zone is the fast zone
\* and direction "out" those whose from_zone is, whichever the case of the
\* letter, so that a move from A to A is kept in both directions; every entry
\* of a result comes from a kept move, and a kept move's product is in a
\* result that was not cut to 5 entries (a product named "__proto__" apart,
\* which never becomes a key of the aggregation object).
C4_ZoneFilter ==
    /\ \A i \in 1..Len(Moves) : \A dir \in Directions :
           (~Moves[i].isNull /\ TargetZoneField(Moves[i], dir).t \in {"string", "null"})
               => /\ ~Raises(Moves[i], dir)
                  /\ PassesZone(Moves[i], dir) <=> MatchesZone(Moves[i], dir)
    /\ render = "done" =>
           \A dir \in Directions :
               /\ Refs(Result(dir)) \subseteq Products(dir)
               /\ Len(Result(dir)) < 5 =>
                      (Products(dir) \ {"__proto__"}) \subseteq Refs(Result(dir))

\* A move into "a" and a move from A to A were rendered, each in its lists.
C4_Witness ==
    /\ render = "done"
    /\ \E i, j \in 1..Len(Moves) :
           /\ Moves[i].to_zone = Str("a") /\ Moves[i].from_zone = Str("B")
           /\ Moves[j].to_zone = Str("A") /\ Moves[j].from_zone = Str("A")
           /\ ProductOf(Moves[i]) # ProductOf(Moves[j])
           /\ ProductOf(Moves[i]) \in Refs(top5IN) \ Refs(top5OUT)
           /\ ProductOf(Moves[j]) \in Refs(top5IN) \cap Refs(top5OUT)

\* C5: the IN and OUT lists hold exactly min(5, number of distinct products
\* among the filtered moves) entries, and nothing is added to what is listed.
C5_ExactlyMinOfFiveAndProducts ==
    (render = "done" /\ WellFormed) =>
        /\ \A dir \in Directions :
               Len(Result(dir)) = Min(5, Cardinality(Products(dir)))
        /\ ListedIN(top5IN) = top5IN
        /\ ListedINFixed(top5IN) = top5IN
        /\ ListedOUT(top5OUT) = top5OUT

\* The entry is not a move record of the declared shape.
HasMalformed == \E i \in 1..Len(Moves) : ~IsMoveRecord(Moves[i])

\* C6: a malformed entry never makes the computation raise; a missing quantity
\* counts as 0, a missing reference falls under the sentinel key, and the
\* result is a list of numeric aggregates.
C6_MalformedNeverRaises ==
    HasMalformed =>
        /\ render # "crashed"
        /\ render = "done" =>
               \A dir \in Directions :
                   /\ AllNumeric(Result(dir))
                   /\ Refs(Result(dir)) \subseteq Products(dir)

\* No move of the list matches the fast zone in the direction (an empty or
\* absent list has none).
NoMatch(dir) == Matching(dir) = {}

\* C7: when the move list is empty, absent or holds no move matching the
\* target zone, the result is the empty sequence and no error is set.
C7_NoMatchGivesEmpty ==
    render # "pending" =>
        \A dir \in Directions :
            NoMatch(dir) => (render = "done" /\ Result(dir) = <<>> /\ error = "")

(***************************************************************************)
(* Responses of GET /storage/map.                                          *)
(***************************************************************************)
MaxItems == 4      \* longest mapItems list drawn item by item
MaxCoord == 1      \* coordinates are drawn from -1..MaxCoord

Item(x, y, lat, lon) ==
    [support_label |-> Str("S"), x |-> x, y |-> y, lat |-> lat, lon |-> lon,
     n_locations |-> 100, occupancy_pct |-> 50]

\* Items that carry x/y, lat/lon, both, one coordinate only, or none.
StrategyItems ==
    { Item(Num(0), Num(0), Null, Null), Item(Num(1), Num(2), Null, Null),
      Item(Null, Null, Num(0), Num(0)), Item(Null, Null, Num(2), Num(1)),
      Item(Num(3), Num(1), Num(1), Num(3)),
      Item(Num(9), Null, Null, Null), Item(Null, Null, Num(9), Null),
      Item(Null, Null, Null, Null) }

MaxGridItems == 61   \* longest mapItems list laid out on the grid

\* A MapItem with its n_locations and its occupancy_pct (in hundredths).
ItemWith(x, y, lat, lon, n, occ) ==
    [support_label |-> Str("S"), x |-> x, y |-> y, lat |-> lat, lon |-> lon,
     n_locations |-> n, occupancy_pct |-> occ]

\* Lists no strategy but the grid draws: no item, or only the first one,
\* carries coordinates.
GridLists ==
    { [i \in 1..n |-> IF i = 1 /\ first THEN Item(Num(0), Num(0), Null, Null)
                                         ELSE Item(Null, Null, Null, Null)] :
          n \in 0..MaxGridItems, first \in BOOLEAN }

\* Pairs of items drawn by each strategy, with the counts of locations and
\* the occupancies around the limits of the radius and of the colour scale.
Counts == {-50, 0, 25, 50, 599, 600, 601}
Occupancies == {-10, 0, 50, 100, 150}
Strategies == {"xy", "ll", "grid"}
Placed(via, i, n, occ) ==
    IF via = "xy" THEN ItemWith(Num(i), Num(i), Null, Null, n, occ)
    ELSE IF via = "ll" THEN ItemWith(Null, Null, Num(i), Num(i), n, occ)
    ELSE ItemWith(Null, Null, Null, Null, n, occ)
AttributePairs ==
    { <<Placed(via, 1, n1, o1), Placed(via, 2, n2, o2)>> :
          via \in Strategies, n1 \in Counts, n2 \in Counts,
          o1 \in Occupancies, o2 \in Occupancies }

Coords == (-1)..MaxCoord
ItemsWithXY == {Item(Num(x), Num(y), Null, Null) : x, y \in Coords}
ItemsWithLL == {Item(Null, Null, Num(la), Num(lo)) : la, lo \in Coords}

MapStates ==
    SeqsUpTo(StrategyItems, MaxItems) \cup SeqsUpTo(ItemsWithXY, MaxItems - 2)
        \cup SeqsUpTo(ItemsWithLL, MaxItems - 2) \cup GridLists \cup AttributePairs

InitProject ==
    /\ slotting = NoSlotting
    /\ error = ""
    /\ mapItems \in MapStates
    /\ render = "pending"
    /\ top5IN = NotComputed
    /\ top5OUT = NotComputed
    /\ svgPoints = NoPoints
    /\ InitCarrierCard /\ InitDashboards /\ InitBatch /\ InitPages

SpecProject == InitProject /\ [][Render]_vars

(***************************************************************************)
(* Vocabulary of the properties of the projection.                         *)
(***************************************************************************)
CarriesXY(d) == d.x.t = "number" /\ d.y.t = "number"
CarriesLL(d) == d.lat.t = "number" /\ d.lon.t = "number"
CountXY == Cardinality({i \in 1..Len(mapItems) : CarriesXY(mapItems[i])})
CountLL == Cardinality({i \in 1..Len(mapItems) : CarriesLL(mapItems[i])})

Points == svgPoints.points
DrawnVia(via) == \A k \in 1..Len(Points) : Points[k].key.via = via

\* The strategy the priority order selects.
Chosen == IF CountXY >= 2 THEN "xy" ELSE IF CountLL >= 2 THEN "ll" ELSE "grid"

\* The items the chosen rescale strategy draws, and their data coordinates
\* on the horizontal (x or lon) and the vertical (y or lat) axis.
Subset ==
    IF Chosen = "xy" THEN SelectSeq(mapItems, CarriesXY)
    ELSE SelectSeq(mapItems, CarriesLL)
Horizontal(d) == IF Chosen = "xy" THEN d.x.n ELSE d.lon.n
Vertical(d) == IF Chosen = "xy" THEN d.y.n ELSE d.lat.n
Hs == {Horizontal(Subset[k]) : k \in 1..Len(Subset)}
Vs == {Vertical(Subset[k]) : k \in 1..Len(Subset)}
Least(S) == CHOOSE m \in S : \A v \in S : m <= v
Greatest(S) == CHOOSE m \in S : \A v \in S : m >= v

\* A canvas coordinate c equals the number v; lies in [lo, hi].
At(c, v) == c.den # 0 /\ c.num = v * c.den
Within(c, lo, hi) == c.den > 0 /\ lo * c.den <= c.num /\ c.num <= hi * c.den

\* C8: Cartesian rescale if at least 2 points carry x and y; otherwise
\* geographic rescale if at least 2 carry lat and lon; otherwise the grid.
C8_StrategyPriority ==
    render = "done" =>
        /\ DrawnVia(Chosen)
        /\ Chosen = "xy" => (Len(Points) = CountXY /\ svgPoints.viewBox = <<800, 240>>)
        /\ Chosen = "ll" => (Len(Points) = CountLL /\ svgPoints.viewBox = <<800, 240>>)
        /\ Chosen = "grid" => (Len(Points) = Len(mapItems) /\ svgPoints.viewBox[1] = 752)

\* Two x/y points were drawn by the Cartesian rescale although two points
\* carry lat/lon only.
C8_Witness ==
    /\ render = "done"
    /\ CountXY = 2 /\ CountLL = 2
    /\ \A i \in 1..Len(mapItems) : ~(CarriesXY(mapItems[i]) /\ CarriesLL(mapItems[i]))
    /\ Len(Points) = 2 /\ DrawnVia("xy")

\* C9, as claimed: in the rescale strategies every point lies in
\* [16, 784] x [16, 224], and the least and the greatest coordinate of the
\* drawn subset go to the two opposite padded edges of their axis.
C9_SubsetExtremesOnOppositeEdges ==
    (render = "done" /\ Chosen \in {"xy", "ll"}) =>
        \A k \in 1..Len(Points) :
            /\ Within(Points[k].x, 16, 784) /\ Within(Points[k].y, 16, 224)
            /\ Horizontal(Subset[k]) = Least(Hs) => At(Points[k].x, 16)
            /\ Horizontal(Subset[k]) = Greatest(Hs) => At(Points[k].x, 784)
            /\ Vertical(Subset[k]) = Least(Vs) => At(Points[k].y, 224)
            /\ Vertical(Subset[k]) = Greatest(Vs) => At(Points[k].y, 16)

\* C9, amended: the same, the extremes going to opposite edges on every axis
\* whose least and greatest coordinate differ.
C9_ExtremesOnOppositeEdgesUnlessDegenerate ==
    (render = "done" /\ Chosen \in {"xy", "ll"}) =>
        \A k \in 1..Len(Points) :
            /\ Within(Points[k].x, 16, 784) /\ Within(Points[k].y, 16, 224)
            /\ Least(Hs) < Greatest(Hs) =>
                   /\ Horizontal(Subset[k]) = Least(Hs) => At(Points[k].x, 16)
                   /\ Horizontal(Subset[k]) = Greatest(Hs) => At(Points[k].x, 784)
            /\ Least(Vs) < Greatest(Vs) =>
                   /\ Vertical(Subset[k]) = Least(Vs) => At(Points[k].y, 224)
                   /\ Vertical(Subset[k]) = Greatest(Vs) => At(Points[k].y, 16)

\* The Cartesian rescale drew two points on opposite corners while an item
\* outside the subset carries a larger x than any item of the subset.
C9_Witness ==
    /\ render = "done" /\ Chosen = "xy"
    /\ \E i \in 1..Len(mapItems) :
           ~CarriesXY(mapItems[i]) /\ mapItems[i].x.t = "number"
               /\ mapItems[i].x.n > Greatest(Hs)
    /\ \E k, l \in 1..Len(Points) :
           /\ At(Points[k].x, 16) /\ At(Points[k].y, 224)
           /\ At(Points[l].x, 784) /\ At(Points[l].y, 16)

\* C10, as claimed: on an axis whose least and greatest coordinate are equal
\* nothing is divided by zero and every point's canvas coordinate is the
\* padding, on the x axis and on the y axis alike.
C10_DegenerateAxisAtPadding ==
    (render = "done" /\ Chosen \in {"xy", "ll"}) =>
        \A k \in 1..Len(Points) :
            /\ Points[k].x.den # 0 /\ Points[k].y.den # 0
            /\ Least(Hs) = Greatest(Hs) => At(Points[k].x, 16)
            /\ Least(Vs) = Greatest(Vs) => At(Points[k].y, 16)

\* C10, amended: on such an axis nothing is divided by zero (the span counts
\* as 1) and every point is placed on the edge the least coordinate goes to:
\* x = padding (16) on the x axis, y = height - padding (224) on the y axis.
C10_DegenerateAxisAtMinimumEdge ==
    (render = "done" /\ Chosen \in {"xy", "ll"}) =>
        \A k \in 1..Len(Points) :
            /\ Points[k].x.den # 0 /\ Points[k].y.den # 0
            /\ Least(Hs) = Greatest(Hs) => (Points[k].x.den = 1 /\ At(Points[k].x, 16))
            /\ Least(Vs) = Greatest(Vs) => (Points[k].y.den = 1 /\ At(Points[k].y, 224))

\* Two points that share their coordinates were drawn, both at (16, 224).
C10_Witness ==
    /\ render = "done" /\ Chosen \in {"xy", "ll"}
    /\ Len(Points) = 2
    /\ Least(Hs) = Greatest(Hs) /\ Least(Vs) = Greatest(Vs)
    /\ \A k \in 1..Len(Points) : At(Points[k].x, 16) /\ At(Points[k].y, 224)

(***************************************************************************)
(* Order of the canvas coordinates, the grid, the colour and the radius.   *)
(***************************************************************************)
\* The fraction a is at most, is less than, the fraction b.
AtMost(a, b) == a.den > 0 /\ b.den > 0 /\ a.num * b.den <= b.num * a.den
Below(a, b) == a.den > 0 /\ b.den > 0 /\ a.num * b.den < b.num * a.den

\* C11: in both rescale strategies, of any two projected points the one with
\* the larger data y (or lat) gets the smaller-or-equal canvas y, and the one
\* with the larger data x (or lon) gets the larger-or-equal canvas x.
C11_YInvertedXKept ==
    (render = "done" /\ Chosen \in {"xy", "ll"}) =>
        \A k, l \in 1..Len(Points) :
            /\ Vertical(Subset[k]) > Vertical(Subset[l])
                   => AtMost(Points[k].y, Points[l].y)
            /\ Horizontal(Subset[k]) > Horizontal(Subset[l])
                   => AtMost(Points[l].x, Points[k].x)

\* The geographic rescale drew two points, the one with the larger lat and
\* lon strictly higher on the canvas (smaller y) and strictly to the right.
C11_Witness ==
    /\ render = "done" /\ Chosen = "ll"
    /\ \E k, l \in 1..Len(Points) :
           /\ Vertical(Subset[k]) > Vertical(Subset[l])
           /\ Horizontal(Subset[k]) > Horizontal(Subset[l])
           /\ Below(Points[k].y, Points[l].y)
           /\ Below(Points[l].x, Points[k].x)

\* The items the chosen strategy draws, in the order of their points.
Drawn == IF Chosen = "grid" THEN mapItems ELSE Subset

\* The sum and the difference of two fractions.
Sum(a, b) == [num |-> a.num * b.den + b.num * a.den, den |-> a.den * b.den]
Diff(a, b) == [num |-> a.num * b.den - b.num * a.den, den |-> a.den * b.den]
Whole(n) == [num |-> n, den |-> 1]

\* The circle of a point, radius included, lies inside the viewBox of the
\* canvas.
InsideCanvas(p) ==
    /\ AtMost(Whole(0), Diff(p.x, p.r)) /\ AtMost(Sum(p.x, p.r), Whole(svgPoints.viewBox[1]))
    /\ AtMost(Whole(0), Diff(p.y, p.r)) /\ AtMost(Sum(p.y, p.r), Whole(svgPoints.viewBox[2]))

\* C12: in the grid fallback every input point is placed, the i-th (from 0)
\* in column i mod 10 and row floor(i / 10) of cells of 72 by 40, no two
\* points share a position, and the canvas grows with the number of points
\* so that every placed point lies inside it.
C12_GridPlacesEveryPoint ==
    (render = "done" /\ Chosen = "grid") =>
        /\ Len(Points) = Len(mapItems)
        /\ \A k \in 1..Len(Points) :
               /\ Points[k].key.i = k - 1
               /\ At(Points[k].x, 16 + ((k - 1) % 10) * 72 + 36)
               /\ At(Points[k].y, 16 + ((k - 1) \div 10) * 40 + 20)
               /\ InsideCanvas(Points[k])
        /\ \A k, l \in 1..Len(Points) :
               (k # l) => ~(Points[k].x = Points[l].x /\ Points[k].y = Points[l].y)
        /\ svgPoints.viewBox[1] = 752
        /\ \A n \in 0..7 : (Len(mapItems) > 10 * n) => svgPoints.viewBox[2] >= 32 + 40 * (n + 1)

\* The grid placed more than sixty points, the last one on the seventh row of
\* a canvas taller than the 280 the drawing is displayed in.
C12_Witness ==
    /\ render = "done" /\ Chosen = "grid"
    /\ Len(Points) > 60
    /\ At(Points[Len(Points)].y, 16 + 6 * 40 + 20)
    /\ svgPoints.viewBox[2] > 280 /\ svgPoints.height = 280

\* C13, as claimed: occupancy 0 gives the low colour rgb(16,185,129),
\* occupancy 1 the high colour rgb(239,68,68), and occupancy 0.5 the exact
\* arithmetic midpoint of the two colours on each channel.
C13_EndpointsAndExactMidpoint ==
    render = "done" =>
        \A k \in 1..Len(Points) :
            /\ Drawn[k].occupancy_pct = 0 => Points[k].fill = <<16, 185, 129>>
            /\ Drawn[k].occupancy_pct = 100 => Points[k].fill = <<239, 68, 68>>
            /\ Drawn[k].occupancy_pct = 50 =>
                   /\ 2 * Points[k].fill[1] = 16 + 239
                   /\ 2 * Points[k].fill[2] = 185 + 68
                   /\ 2 * Points[k].fill[3] = 129 + 68

\* C13, amended: the same endpoints, and occupancy 0.5 gives the midpoint
\* of each channel rounded to the nearest integer, a half rounding up:
\* rgb(128,127,99).
C13_EndpointsAndRoundedMidpoint ==
    render = "done" =>
        \A k \in 1..Len(Points) :
            /\ Drawn[k].occupancy_pct = 0 => Points[k].fill = <<16, 185, 129>>
            /\ Drawn[k].occupancy_pct = 100 => Points[k].fill = <<239, 68, 68>>
            /\ Drawn[k].occupancy_pct = 50 => Points[k].fill = <<128, 127, 99>>

\* Two points were drawn, one of occupancy 0.5 in rgb(128,127,99) and one of
\* occupancy 1 in the high colour.
C13_Witness ==
    /\ render = "done"
    /\ \E k, l \in 1..Len(Points) :
           /\ Drawn[k].occupancy_pct = 50 /\ Points[k].fill = <<128, 127, 99>>
           /\ Drawn[l].occupancy_pct = 100 /\ Points[l].fill = <<239, 68, 68>>

\* C14: the radius never decreases when locationCount grows, lies in
\* [4, 16], and is 4 + min(12, locationCount / 50) with a negative count
\* taken as 0, whichever of the three strategies draws the point.
C14_RadiusMonotoneInRange ==
    render = "done" =>
        /\ \A k \in 1..Len(Points) :
               /\ AtMost([num |-> 4, den |-> 1], Points[k].r)
               /\ AtMost(Points[k].r, [num |-> 16, den |-> 1])
               /\ Drawn[k].n_locations <= 0 => At(Points[k].r, 4)
               /\ Drawn[k].n_locations >= 600 => At(Points[k].r, 16)
               /\ Drawn[k].n_locations \in 0..600 =>
                      Points[k].r.num * 50 = (200 + Drawn[k].n_locations) * Points[k].r.den
        /\ \A k, l \in 1..Len(Points) :
               Drawn[k].n_locations <= Drawn[l].n_locations
                   => AtMost(Points[k].r, Points[l].r)

\* The grid drew two points, one of 25 locations with radius 4.5 and one of
\* 601 locations with radius 16.
C14_Witness ==
    /\ render = "done" /\ Chosen = "grid"
    /\ \E k, l \in 1..Len(Points) :
           /\ Drawn[k].n_locations = 25 /\ Points[k].r.num * 2 = 9 * Points[k].r.den
           /\ Drawn[l].n_locations = 601 /\ At(Points[l].r, 16)

(***************************************************************************)
(* StockageDashboard at rest, in the specifications of the other           *)
(* components.                                                             *)
(***************************************************************************)
InitStockage ==
    /\ slotting = NoSlotting
    /\ error = ""
    /\ mapItems = <<>>
    /\ render = "pending"
    /\ top5IN = NotComputed
    /\ top5OUT = NotComputed
    /\ svgPoints = NoPoints

(***************************************************************************)
(* CarrierSimpleCard.  The ranking itself is done behind                   *)
(* recoSimpleRecommend, outside the sources: rank is its contract, the     *)
(* Recommendation Ranker of the specification (4.4), on candidates that    *)
(* carry their score.                                                      *)
(***************************************************************************)
MaxCandidates == 4   \* most candidates of a lane
MaxScore == 2        \* scores are drawn from 1..MaxScore

\* The candidates of a lane in their original order; carrier i is the i-th.
CandidateLists ==
    UNION { { [i \in 1..n |-> [carrier |-> i, score |-> f[i]]] : f \in [1..n -> 1..MaxScore] } :
                n \in 0..MaxCandidates }

\* c goes after the candidates whose score is not larger (stable).
RankInsert(sorted, c) ==
    LET p == Cardinality({i \in 1..Len(sorted) : sorted[i].score <= c.score})
    IN SubSeq(sorted, 1, p) \o <<c>> \o SubSeq(sorted, p + 1, Len(sorted))

RECURSIVE RankAll(_)
RankAll(cs) ==
    IF cs = <<>> THEN <<>>
    ELSE RankInsert(RankAll(SubSeq(cs, 1, Len(cs) - 1)), cs[Len(cs)])

\* rank(candidates, k): ascending by score, ties in original order, top k.
rank(candidates, k) == SubSeq(RankAll(candidates), 1, Min(k, Len(candidates)))

topk == 3       \* { ...form, topk: 3 }
SliceEnd == 3   \* res.topK.slice(0, 3)

\* The response of the recommendation endpoint to a request with topk.
RecoResponse(candidates) == [topK |-> rank(candidates, topk)]

\* The slice keeping one entry less.
TakeTopShort(arr) == SubSeq(arr, 1, Min(SliceEnd - 1, Len(arr)))

\* res.topK.slice(0, 3)
TakeTop(arr) == SubSeq(arr, 1, Min(SliceEnd, Len(arr)))

\* The messages of the errors recoSimpleRecommend throws; Null: no message.
ThrownMessages == {Str("Failed to fetch"), Str(""), Null}

\* e.message ?? "Erreur"
MessageOr(m, default) == IF m.t = "null" THEN Str(default) ELSE m

\* setLoading(true); setError(null); setTopK([]); the request leaves.
\* The button is disabled while loading.
onPredict ==
    /\ ~carrierCard.loading
    /\ \E cs \in CandidateLists :
           recoCall' = [status |-> "pending", candidates |-> cs]
    /\ carrierCard' = [loading |-> TRUE, error |-> Null, topK |-> <<>>]
    /\ UNCHANGED <<stockageVars, dashboardVars, batchVars, pageVars>>

\* The request returns: setTopK(arr); an empty arr sets the error; finally.
onPredictReturns ==
    /\ recoCall.status = "pending"
    /\ LET res == RecoResponse(recoCall.candidates)
           arr == TakeTop(res.topK)
       IN carrierCard' =
              [loading |-> FALSE,
               error |-> IF Len(arr) = 0
                         THEN Str("Aucune recommandation retournee pour ces parametres.")
                         ELSE carrierCard.error,
               topK |-> arr]
    /\ recoCall' = [recoCall EXCEPT !.status = "returned"]
    /\ UNCHANGED <<stockageVars, dashboardVars, batchVars, pageVars>>

\* The request throws: setError(e.message ?? "Erreur"); finally.
onPredictThrows ==
    /\ recoCall.status = "pending"
    /\ \E m \in ThrownMessages :
           carrierCard' = [carrierCard EXCEPT !.loading = FALSE,
                                              !.error = MessageOr(m, "Erreur")]
    /\ recoCall' = [recoCall EXCEPT !.status = "threw"]
    /\ UNCHANGED <<stockageVars, dashboardVars, batchVars, pageVars>>

\* The cards of the Top 3, labelled from the last one.
ShownCardsCountedDown(top) ==
    [i \in 1..Len(top) |->
        [label |-> Len(top) - i + 1, carrier |-> top[i].carrier, score |-> top[i].score]]

\* topK.map((c, i) => ... Top {i + 1} ...)
ShownCards(top) ==
    [i \in 1..Len(top) |->
        [label |-> i, carrier |-> top[i].carrier, score |-> top[i].score]]

\* {error && <div className="text-sm text-destructive">{error}</div>}
ShownError(card) == IF Truthy(card.error) THEN card.error.s ELSE ""

InitCarrier == InitStockage /\ InitCarrierCard /\ InitDashboards /\ InitBatch /\ InitPages
NextCarrier == onPredict \/ onPredictReturns \/ onPredictThrows
SpecCarrier == InitCarrier /\ [][NextCarrier]_vars

(***************************************************************************)
(* Properties of the recommendations.                                      *)
(***************************************************************************)
Cards == ShownCards(carrierCard.topK)
Returned == recoCall.status = "returned"

\* The place of carrier c in the original order of the candidates.
OriginalPlace(c) == CHOOSE i \in 1..Len(recoCall.candidates) : recoCall.candidates[i].carrier = c

\* C15: the recommendations shown are in ascending order of score, Top 1
\* having the lowest, and candidates of equal score keep their original order.
C15_AscendingStable ==
    Returned =>
        \A a, b \in 1..Len(Cards) :
            /\ Cards[a].label < Cards[b].label => Cards[a].score <= Cards[b].score
            /\ Cards[a].label = 1 =>
                   \A i \in 1..Len(recoCall.candidates) :
                       Cards[a].score <= recoCall.candidates[i].score
            /\ (Cards[a].label < Cards[b].label /\ Cards[a].score = Cards[b].score)
                   => OriginalPlace(Cards[a].carrier) < OriginalPlace(Cards[b].carrier)

\* Three cards are shown, Top 1 and Top 2 of equal score in their original
\* order, although the first candidate of the lane has the largest score.
C15_Witness ==
    /\ Returned /\ Len(Cards) = 3
    /\ recoCall.candidates[1].score > recoCall.candidates[2].score
    /\ \E a, b \in 1..Len(Cards) :
           /\ Cards[a].label = 1 /\ Cards[b].label = 2
           /\ Cards[a].score = Cards[b].score
           /\ OriginalPlace(Cards[a].carrier) < OriginalPlace(Cards[b].carrier)

\* C16: an empty candidate set gives an empty result and no error: no error
\* state is set or shown when no recommendation comes back.
C16_EmptyIsNotAnError ==
    (Returned /\ recoCall.candidates = <<>>) =>
        /\ carrierCard.topK = <<>>
        /\ carrierCard.error = Null
        /\ ShownError(carrierCard) = ""

\* C17: the result holds the top 3 candidates, or all of them when there are
\* fewer: min(3, number of candidates) entries, a prefix of the ranked list.
C17_TopKPrefix ==
    Returned =>
        /\ Len(carrierCard.topK) = Min(3, Len(recoCall.candidates))
        /\ carrierCard.topK =
               SubSeq(RankAll(recoCall.candidates), 1, Len(carrierCard.topK))

\* Four candidates were ranked and three of them are held, the one left out
\* having the largest score.
C17_Witness ==
    /\ Returned /\ Len(recoCall.candidates) = 4 /\ Len(carrierCard.topK) = 3
    /\ \E i \in 1..4 :
           /\ \A k \in 1..3 : carrierCard.topK[k].carrier # i
           /\ \A k \in 1..3 : carrierCard.topK[k].score <= recoCall.candidates[i].score

(***************************************************************************)
(* JSON bodies: an object is the function of its fields; an array is a     *)
(* sequence.                                                               *)
(***************************************************************************)
\* { ...acc, ...v }: spreading null adds nothing; later fields win.
Spread(acc, v) ==
    IF v.t = "object"
    THEN Obj([name \in DOMAIN acc.fields \cup DOMAIN v.fields |->
                 IF name \in DOMAIN v.fields THEN v.fields[name] ELSE acc.fields[name]])
    ELSE acc

Reverse(seq) == [i \in 1..Len(seq) |-> seq[Len(seq) + 1 - i]]

\* The series with its rows in the opposite order.
SeriesReversed(charts, name) ==
    IF HasField(charts, name) THEN Reverse(charts.fields[name]) ELSE <<>>

\* charts?.deliveries_by_zone || [], charts?.avg_cost_by_carrier || []
Series(charts, name) ==
    IF HasField(charts, name) THEN charts.fields[name] ELSE <<>>

(***************************************************************************)
(* Responses of the endpoints of the dashboards.                           *)
(***************************************************************************)
Row(key, value) == [key |-> key, value |-> value]
ZoneRows == <<Row("Nord", 2), Row("Sud", 3), Row("Est", 1)>>
CarrierRows == <<Row("UPS", 9), Row("DHL", 12)>>

\* GET /transport/charts: both series, one of them, none; the zones in two orders.
ChartsBodies ==
    { Obj(("deliveries_by_zone" :> z) @@ ("avg_cost_by_carrier" :> CarrierRows)) :
          z \in {ZoneRows, Reverse(ZoneRows)} }
        \cup { Obj("avg_cost_by_carrier" :> CarrierRows),
               Obj("deliveries_by_zone" :> ZoneRows), Obj(NoFields) }
ErrorBodies == { Obj("error" :> Str("Non autorise")), Obj(NoFields), Null }

\* What a request comes to: fetch (or the parsing of the body) throws, or a
\* response arrives with its ok flag and its JSON body.
Throws(m) == [kind |-> "throws", ok |-> FALSE, message |-> m, body |-> Null]
Http(ok, body) == [kind |-> "http", ok |-> ok, message |-> Null, body |-> body]
Outcomes(bodies) ==
    {Throws(Str("Failed to fetch")), Throws(Str(""))}
        \cup {Http(FALSE, b) : b \in ErrorBodies} \cup {Http(TRUE, b) : b \in bodies}
Failed(o) == o.kind = "throws" \/ ~o.ok

(***************************************************************************)
(* Index renders one dashboard at a time.                                  *)
(***************************************************************************)
NothingMounted == chartsCall.status = "none" /\ supCalls.started = 0

(***************************************************************************)
(* TransportDashboard.                                                     *)
(***************************************************************************)
\* useEffect(() => { fetchCharts(); }, []): the request leaves.
TransportMount ==
    /\ NothingMounted
    /\ chartsCall' = [chartsCall EXCEPT !.status = "pending"]
    /\ UNCHANGED <<transport, supervisor, supCalls, stockageVars, carrierVars, batchVars, pageVars>>

\* fetchCharts after its awaits: setCharts(j), or setError in the catch;
\* finally setLoading(false).
fetchCharts ==
    /\ chartsCall.status = "pending"
    /\ \E o \in Outcomes(ChartsBodies \cup {Null}) :
           /\ chartsCall' = [status |-> "settled", response |-> o]
           /\ transport' =
                  IF o.kind = "throws"
                  THEN [transport EXCEPT !.loading = FALSE,
                            !.error = OrElse(o.message, Str("Erreur inconnue"))]
                  ELSE IF ~o.ok
                  THEN [transport EXCEPT !.loading = FALSE,
                            !.error = OrElse(OrElse(Field(o.body, "error"), Str("Erreur API")),
                                             Str("Erreur inconnue"))]
                  ELSE [transport EXCEPT !.loading = FALSE, !.charts = o.body]
    /\ UNCHANGED <<supervisor, supCalls, stockageVars, carrierVars, batchVars, pageVars>>

\* What a chart card of TransportDashboard shows.
TransportChart(name) ==
    IF transport.loading THEN [kind |-> "loading", text |-> "Chargement", data |-> <<>>]
    ELSE IF Truthy(transport.error)
    THEN [kind |-> "error", text |-> transport.error.s, data |-> <<>>]
    ELSE [kind |-> "chart", text |-> "", data |-> Series(transport.charts, name)]

(***************************************************************************)
(* SupervisorDashboard.                                                    *)
(***************************************************************************)
MaxRefreshes == 2    \* refreshes started: the mount and the clicks on Actualiser

\* safeJsonGet: the body of an OK response, null in every other case.
safeJsonGet(o) == IF o.kind = "http" /\ o.ok THEN o.body ELSE Null
Fetched(bodies) == {safeJsonGet(o) : o \in Outcomes(bodies)}

\* The results of the requests of one refresh: all of them answered, one of
\* them failed, or all of them failed.
NoneOneOrAllFailed(results) ==
    LET failed == {i \in 1..Len(results) : results[i] = Null}
    IN Cardinality(failed) \in {0, 1, Len(results)}

\* Bodies of the endpoints; ratios are held in hundredths.
KpisBodies ==
    { Obj(("distinct_skus" :> Num(1234)) @@ ("occupancy_rate" :> Num(45))
              @@ ("saturated_locations_pct" :> Num(10))) }
StatusItem(status) == [status |-> Str(status), is_late |-> FALSE, delay_min |-> Num(0)]
OpsBodies ==
    { Obj("items" :> <<>>),
      Obj("items" :> <<StatusItem("ok"), StatusItem("Surcharge"), StatusItem("ok")>>) }
EtaBodies ==
    { Obj("items" :> << [status |-> Str("Late"), is_late |-> FALSE, delay_min |-> Num(0)],
                        [status |-> Str("ok"), is_late |-> FALSE, delay_min |-> Num(5)],
                        [status |-> Str("ok"), is_late |-> FALSE, delay_min |-> Num(0)] >>) }
AnomBodies == { Obj("items" :> <<StatusItem("p90"), StatusItem("p90")>>) }
ZonesBodies == { Obj("items" :> <<StatusItem("CRITIQUE"), StatusItem("ok")>>) }
HotBodies == { Obj("items" :> <<StatusItem("sature")>>) }
OrdersBodies == { Obj("week_orders" :> Num(7)) }
SupChartsBodies == { Obj("orders_trend" :> <<Row("2025-09-11", 4)>>) }
AnalyticsBodies == { Obj("class_distribution" :> <<Row("A", 3)>>) }
\* GET /transport/charts as SupervisorDashboard fetches it: both series, the zones only.
TransportChartsBodies ==
    { Obj(("deliveries_by_zone" :> ZoneRows) @@ ("avg_cost_by_carrier" :> CarrierRows)),
      Obj("deliveries_by_zone" :> ZoneRows) }

\* String(v || "").toLowerCase() on the statuses above.
ToLowerCase(s) ==
    CASE s = "Surcharge" -> "surcharge"
      [] s = "CRITIQUE" -> "critique"
      [] s = "Late" -> "late"
      [] OTHER -> s
StatusIs(item, status) == ToLowerCase(OrElse(item.status, Str("")).s) = status

\* Math.round((count / total) * 100), total > 0
RoundPct(count, total) == (200 * count + total) \div (2 * total)

\* typeof v?.name === "number" ? (the number, formatted) : "—"
ShownNumber(v, name, kind) ==
    IF Field(v, name).t = "number" THEN [kind |-> kind, n |-> Field(v, name).n] ELSE Dash

\* v && Array.isArray(v.items)
HasItems(v) == HasField(v, "items")
\* v.items.filter((o) => String(o?.status || "").toLowerCase() === status).length
CountStatus(v, status) ==
    Cardinality({i \in 1..Len(v.fields["items"]) : StatusIs(v.fields["items"][i], status)})

\* The body of refreshTopKpis after k and ops are fetched.
KpiTopOf(k, ops) ==
    [distinctSkus |-> ShownNumber(k, "distinct_skus", "int"),
     occupancyRate |-> ShownNumber(k, "occupancy_rate", "pct"),
     deliveries |-> ShownNumber(k, "saturated_locations_pct", "pct"),
     operators |->
         IF HasItems(ops)
         THEN IF Len(ops.fields["items"]) > 0
              THEN [kind |-> "pct",
                    n |-> RoundPct(CountStatus(ops, "surcharge"), Len(ops.fields["items"]))]
              ELSE [kind |-> "pct", n |-> 0]
         ELSE Dash]

IsLate(r) ==
    r.is_late = TRUE \/ StatusIs(r, "late") \/ (r.delay_min.t = "number" /\ r.delay_min.n > 0)

\* The latePctVal that counts every shipment late when there is no row.
LatePctOfAllLateWithoutRows(eta) ==
    IF HasItems(eta) /\ Len(eta.fields["items"]) > 0
    THEN RoundPct(Cardinality({i \in 1..Len(eta.fields["items"]) :
                                   IsLate(eta.fields["items"][i])}),
                  Len(eta.fields["items"]))
    ELSE 100

\* latePctVal of refreshAlerts
LatePctOf(eta) ==
    IF HasItems(eta) /\ Len(eta.fields["items"]) > 0
    THEN RoundPct(Cardinality({i \in 1..Len(eta.fields["items"]) :
                                   IsLate(eta.fields["items"][i])}),
                  Len(eta.fields["items"]))
    ELSE 0

\* The calls in flight are told apart by the refresh that made them: the
\* refresh n starts one call of each kind, and the call that ends is any of
\* those in flight.  shown is the refresh whose call set what is displayed.
Started(runs, n) == [f \in DOMAIN runs |-> runs[f] \cup {n}]
Ended(f, n, responses) ==
    [supCalls EXCEPT ![f] = @ - 1, !.last[f] = responses, !.runs[f] = @ \ {n},
                     !.shown[f] = n]

\* The first render's effect: the three refreshes start; refreshAlerts sets
\* loadingAlerts and clears errAlerts before its first await.
SupervisorMount ==
    /\ NothingMounted
    /\ supCalls' = [supCalls EXCEPT !.started = 1, !.kpis = 1, !.alerts = 1, !.charts = 1,
                                    !.runs = Started(supCalls.runs, 1)]
    /\ supervisor' = [supervisor EXCEPT !.loadingAlerts = TRUE, !.errAlerts = Null]
    /\ UNCHANGED <<transport, chartsCall, stockageVars, carrierVars, batchVars, pageVars>>

\* The button Actualiser, disabled while loadingAlerts.
Actualiser ==
    /\ supCalls.started > 0 /\ supCalls.started < MaxRefreshes
    /\ ~supervisor.loadingAlerts
    /\ supCalls' = [supCalls EXCEPT !.started = @ + 1, !.kpis = @ + 1,
                                    !.alerts = @ + 1, !.charts = @ + 1,
                                    !.runs = Started(@, supCalls.started + 1)]
    /\ supervisor' = [supervisor EXCEPT !.loadingAlerts = TRUE, !.errAlerts = Null]
    /\ UNCHANGED <<transport, chartsCall, stockageVars, carrierVars, batchVars, pageVars>>

\* refreshTopKpis after its two awaits: setKpiTop.
refreshTopKpis ==
    /\ supCalls.kpis > 0
    /\ \E n \in supCalls.runs.kpis, k \in Fetched(KpisBodies), ops \in Fetched(OpsBodies) :
           /\ NoneOneOrAllFailed(<<k, ops>>)
           /\ supervisor' = [supervisor EXCEPT !.kpiTop = KpiTopOf(k, ops)]
           /\ supCalls' = Ended("kpis", n, <<k, ops>>)
    /\ UNCHANGED <<transport, chartsCall, stockageVars, carrierVars, batchVars, pageVars>>

\* refreshAlerts after its five awaits: the five setters; nothing in the try
\* block throws, safeJsonGet having caught; finally setLoadingAlerts(false).
refreshAlerts ==
    /\ supCalls.alerts > 0
    /\ \E n \in supCalls.runs.alerts, eta \in Fetched(EtaBodies), anom \in Fetched(AnomBodies),
          zones \in Fetched(ZonesBodies), hot \in Fetched(HotBodies),
          kpi \in Fetched(OrdersBodies) :
           /\ NoneOneOrAllFailed(<<eta, anom, zones, hot, kpi>>)
           /\ supervisor' =
                  [supervisor EXCEPT
                      !.latePct = LatePctOf(eta),
                      !.anomCount = IF HasItems(anom) THEN Len(anom.fields["items"]) ELSE 0,
                      !.zonesCritical =
                          IF HasItems(zones)
                          THEN CountStatus(zones, "critique")
                          ELSE 0,
                      !.locsAttention = IF HasItems(hot) THEN Len(hot.fields["items"]) ELSE 0,
                      !.ordersWeek =
                          IF Field(kpi, "week_orders").t = "null" THEN 0
                          ELSE Field(kpi, "week_orders").n,
                      !.loadingAlerts = FALSE]
           /\ supCalls' = Ended("alerts", n, <<eta, anom, zones, hot, kpi>>)
    /\ UNCHANGED <<transport, chartsCall, stockageVars, carrierVars, batchVars, pageVars>>

\* refreshCharts after its three awaits: setCharts({...sup, ...storage, ...transport}).
refreshCharts ==
    /\ supCalls.charts > 0
    /\ \E n \in supCalls.runs.charts, sup \in Fetched(SupChartsBodies),
          storage \in Fetched(AnalyticsBodies),
          tr \in Fetched(TransportChartsBodies) :
           /\ NoneOneOrAllFailed(<<sup, storage, tr>>)
           /\ supervisor' =
                  [supervisor EXCEPT
                      !.charts = Spread(Spread(Spread(Obj(NoFields), sup), storage), tr)]
           /\ supCalls' = Ended("charts", n, <<sup, storage, tr>>)
    /\ UNCHANGED <<transport, chartsCall, stockageVars, carrierVars, batchVars, pageVars>>

\* What a chart card of SupervisorDashboard draws.
SupervisorChart(name) == Series(supervisor.charts, name)

\* What the card of the alerts shows: the loading line, the error, the alerts.
SupervisorAlerts ==
    [loading |-> supervisor.loadingAlerts,
     error |-> IF Truthy(supervisor.errAlerts) THEN supervisor.errAlerts.s ELSE "",
     alerts |-> IF ~supervisor.loadingAlerts /\ ~Truthy(supervisor.errAlerts)
                THEN <<supervisor.anomCount, supervisor.zonesCritical,
                       supervisor.locsAttention, supervisor.ordersWeek>>
                ELSE <<>>]

InitDashboardsSpec == InitStockage /\ InitCarrierCard /\ InitDashboards /\ InitBatch /\ InitPages
NextDashboards ==
    \/ TransportMount \/ fetchCharts
    \/ SupervisorMount \/ Actualiser
    \/ refreshTopKpis \/ refreshAlerts \/ refreshCharts
SpecDashboards == InitDashboardsSpec /\ [][NextDashboards]_vars

(***************************************************************************)
(* Properties of the charts and of the failed requests.                    *)
(***************************************************************************)
ChartNames == {"deliveries_by_zone", "avg_cost_by_carrier"}

\* The rows of a series in a response body, in the order of the body; no
\* row when the body has no such series.
RowsIn(body, name) ==
    IF body.t = "object" /\ name \in DOMAIN body.fields THEN body.fields[name] ELSE <<>>

SameRowsSameOrder(shown, rows) ==
    Len(shown) = Len(rows) /\ \A i \in 1..Len(rows) : shown[i] = rows[i]

TransportLoaded == chartsCall.status = "settled" /\ ~Failed(chartsCall.response)
SupervisorChartsLoaded == supCalls.last.charts # <<>>

\* C18: the per-zone and per-carrier series are drawn in the order of the
\* API response, never reordered, and an absent series is drawn empty.
C18_ChartsKeepResponseOrder ==
    \A name \in ChartNames :
        /\ TransportLoaded =>
               /\ TransportChart(name).kind = "chart"
               /\ SameRowsSameOrder(TransportChart(name).data,
                                    RowsIn(chartsCall.response.body, name))
        /\ SupervisorChartsLoaded =>
               SameRowsSameOrder(SupervisorChart(name),
                                 RowsIn(supCalls.last.charts[3], name))

\* SupervisorDashboard draws the zones Nord, Sud, Est in the order of the
\* response, sorted neither by name nor by count, and no carrier, the
\* response having no carrier series, next to the series of the two other
\* responses.
C18_Witness ==
    /\ SupervisorChartsLoaded
    /\ Len(SupervisorChart("deliveries_by_zone")) = 3
    /\ SupervisorChart("deliveries_by_zone")[1].key = "Nord"
    /\ SupervisorChart("deliveries_by_zone")[3].key = "Est"
    /\ SupervisorChart("avg_cost_by_carrier") = <<>>
    /\ "avg_cost_by_carrier" \notin DOMAIN supCalls.last.charts[3].fields
    /\ Len(SupervisorChart("orders_trend")) = 1

SupervisorSettled ==
    supCalls.started > 0 /\ supCalls.kpis = 0 /\ supCalls.alerts = 0 /\ supCalls.charts = 0
SupervisorFetchFailed ==
    \E f \in {"kpis", "alerts", "charts"} :
        \E i \in 1..Len(supCalls.last[f]) : supCalls.last[f][i] = Null

\* C20: when the data fetch of a dashboard fails (network error or non-OK
\* response), the dashboard ends in a state that shows an error to the user
\* instead of default or stale values.
C20_FailedFetchShowsError ==
    /\ (chartsCall.status = "settled" /\ Failed(chartsCall.response)) =>
           \A name \in ChartNames : TransportChart(name).kind = "error"
    /\ (SupervisorSettled /\ SupervisorFetchFailed) => SupervisorAlerts.error # ""

\* ---- The refreshes of SupervisorDashboard told apart ----
Kinds == {"kpis", "alerts", "charts"}
AlertCounters ==
    <<supervisor.latePct, supervisor.anomCount, supervisor.zonesCritical,
      supervisor.locsAttention, supervisor.ordersWeek>>
Displayed(f) ==
    CASE f = "kpis" -> supervisor.kpiTop
      [] f = "alerts" -> AlertCounters
      [] f = "charts" -> supervisor.charts
\* The call of kind f of the refresh n ends in this step.
CallEnds(f, n) == n \in supCalls.runs[f] /\ n \notin supCalls'.runs[f]

\* C26: once every request has settled, the top KPIs, the alert counters and
\* the charts displayed are those of the refresh started last, and the call
\* of an earlier refresh that ends after the call of a later one leaves what
\* is displayed as it is.
C26_LatestRefreshWins ==
    /\ [](SupervisorSettled => \A f \in Kinds : supCalls.shown[f] = supCalls.started)
    /\ [][\A f \in Kinds : \A n \in 1..MaxRefreshes :
              (CallEnds(f, n) /\ n < supCalls.shown[f]) => Displayed(f)' = Displayed(f)]_vars

AllAlertFetchesFailed ==
    supCalls.alerts = 0 /\ supCalls.last.alerts = <<Null, Null, Null, Null, Null>>

MaxExit == 5         \* exit codes of the pipeline are drawn from 0..MaxExit
ExitCodes == 0..MaxExit
MailerExits == {0, 1}
Scripts == {"first", "second", "docker"}

Other == <<stockageVars, carrierVars, dashboardVars, pageVars>>

Launch ==
    /\ batch.script = "none"
    /\ \E sc \in Scripts, mailer \in BOOLEAN :
           /\ (mailer => sc = "second")
           /\ batch' = [batch EXCEPT !.script = sc, !.pc = "start", !.mailerExists = mailer]
    /\ UNCHANGED Other

\* Lines 1-9: the header of the log.
FirstLogStart ==
    /\ batch.script = "first" /\ batch.pc = "start"
    /\ batch' = [batch EXCEPT !.pc = "pipeline", !.log = Append(@, "Lancement du pipeline")]
    /\ UNCHANGED Other

\* Line 11: python.exe run_full_pipeline.py >> %logFile% 2>&1
FirstRunPipeline ==
    /\ batch.script = "first" /\ batch.pc = "pipeline"
    /\ \E e \in ExitCodes :
           batch' = [batch EXCEPT !.pc = "report", !.invocations = @ + 1,
                                  !.pipelineExit = e, !.lastExit = e]
    /\ UNCHANGED Other

\* Lines 13-15: the end of the log and the message on the console.
FirstReport ==
    /\ batch.script = "first" /\ batch.pc = "report"
    /\ batch' = [batch EXCEPT !.pc = "end", !.log = Append(@, "Fin de l'execution"),
                              !.console = Append(@, "Pipeline execute avec succes")]
    /\ UNCHANGED Other

\* Line 16: pause, and the end of the script.
FirstEnd ==
    /\ batch.script = "first" /\ batch.pc = "end"
    /\ batch' = [batch EXCEPT !.pc = "done", !.exitCode = batch.lastExit]
    /\ UNCHANGED Other

\* Lines 18-37: the settings and the header of the log.
SecondLogStart ==
    /\ batch.script = "second" /\ batch.pc = "start"
    /\ batch' = [batch EXCEPT !.pc = "pipeline", !.log = Append(@, "[START]")]
    /\ UNCHANGED Other

\* Lines 40-41: the orchestrator, and set "ERR=%ERRORLEVEL%".
SecondRunPipeline ==
    /\ batch.script = "second" /\ batch.pc = "pipeline"
    /\ \E e \in ExitCodes :
           batch' = [batch EXCEPT !.pc = "outcome", !.invocations = @ + 1,
                                  !.pipelineExit = e, !.lastExit = e, !.ERR = e]
    /\ UNCHANGED Other

\* Lines 43-50: the line of the log and the subject of the mail.
SecondLogOutcome ==
    /\ batch.script = "second" /\ batch.pc = "outcome"
    /\ batch' = IF batch.ERR = 0
                THEN [batch EXCEPT !.pc = "body", !.log = Append(@, "[SUCCESS]"),
                                   !.SUBJECT = "[OK] Full pipeline"]
                ELSE [batch EXCEPT !.pc = "body", !.log = Append(@, "[FAIL]"),
                                   !.SUBJECT = "[FAIL] Full pipeline"]
    /\ UNCHANGED Other

\* Lines 53-64: the body of the mail.
SecondWriteBody ==
    /\ batch.script = "second" /\ batch.pc = "body"
    /\ batch' = [batch EXCEPT !.pc = "mail",
                    !.body = IF batch.ERR = 0 THEN <<"Statut : SUCCES">>
                                              ELSE <<"Statut : ECHEC">>]
    /\ UNCHANGED Other

\* Lines 68-76: the mailer runs and sets ERRORLEVEL; the log says the mail
\* was sent.
SecondSendMail ==
    /\ batch.script = "second" /\ batch.pc = "mail" /\ batch.mailerExists
    /\ \E m \in MailerExits :
           batch' = [batch EXCEPT !.pc = "end", !.lastExit = m, !.mailed = (m = 0),
                                  !.log = Append(@, "[END]")]
    /\ UNCHANGED Other

\* Lines 77-79: no mailer.
SecondNoMailer ==
    /\ batch.script = "second" /\ batch.pc = "mail" /\ ~batch.mailerExists
    /\ batch' = [batch EXCEPT !.pc = "end", !.log = Append(@, "[WARN]")]
    /\ UNCHANGED Other

\* Line 81: endlocal, and the end of the script.
SecondEnd ==
    /\ batch.script = "second" /\ batch.pc = "end"
    /\ batch' = [batch EXCEPT !.pc = "done", !.exitCode = batch.lastExit]
    /\ UNCHANGED Other

\* docker pull: its exit code is not looked at.
DockerPull ==
    /\ batch.script = "docker" /\ batch.pc = "start"
    /\ \E p \in {0, 1} : batch' = [batch EXCEPT !.pc = "pipeline", !.lastExit = p]
    /\ UNCHANGED Other

\* docker run --rm ... python full_pipeline.py
DockerRun ==
    /\ batch.script = "docker" /\ batch.pc = "pipeline"
    /\ \E e \in ExitCodes :
           batch' = [batch EXCEPT !.pc = "end", !.invocations = @ + 1,
                                  !.pipelineExit = e, !.lastExit = e]
    /\ UNCHANGED Other

\* if ($LASTEXITCODE -ne 0) { exit 1 } else { exit 0 }
DockerExit ==
    /\ batch.script = "docker" /\ batch.pc = "end"
    /\ batch' = [batch EXCEPT !.pc = "done",
                              !.exitCode = IF batch.lastExit # 0 THEN 1 ELSE 0]
    /\ UNCHANGED Other

InitBatchSpec == InitStockage /\ InitCarrierCard /\ InitDashboards /\ InitBatch /\ InitPages
NextBatch ==
    \/ Launch
    \/ FirstLogStart \/ FirstRunPipeline \/ FirstReport \/ FirstEnd
    \/ SecondLogStart \/ SecondRunPipeline \/ SecondLogOutcome \/ SecondWriteBody
    \/ SecondSendMail \/ SecondNoMailer \/ SecondEnd
    \/ DockerPull \/ DockerRun \/ DockerExit
SpecBatch == InitBatchSpec /\ [][NextBatch]_vars

(***************************************************************************)
(* Property of the batch runners.                                          *)
(***************************************************************************)
PipelineSucceeded == batch.pipelineExit = 0
SaysSuccess(line) ==
    line \in {"Pipeline execute avec succes", "[SUCCESS]", "[OK] Full pipeline",
              "Statut : SUCCES"}
SaysFailure(line) == line \in {"[FAIL]", "[FAIL] Full pipeline", "Statut : ECHEC"}
\* The outcome messages a finished runner has put on the console, in the
\* log, in the subject and in the body of the mail.
Reported ==
    {batch.console[i] : i \in 1..Len(batch.console)}
        \cup {batch.log[i] : i \in 1..Len(batch.log)}
        \cup {batch.body[i] : i \in 1..Len(batch.body)}
        \cup {batch.SUBJECT}

\* C19: a batch runner invokes the pipeline exactly once, and what it
\* reports (console and log message, subject and body of the mail, exit
\* code of the process) is success if and only if the pipeline exited with 0.
C19_ReportsPipelineOutcome ==
    batch.pc = "done" =>
        /\ batch.invocations = 1
        /\ \A line \in Reported :
               /\ SaysSuccess(line) => PipelineSucceeded
               /\ SaysFailure(line) => ~PipelineSucceeded
        /\ (batch.exitCode = 0) <=> PipelineSucceeded

(***************************************************************************)
(* Index: the page that holds the session, the current view and the anchor *)
(* to scroll to.  An event handler is one action together with the render  *)
(* and the effect that follow its state updates; the callback given to     *)
(* requestAnimationFrame is an action of its own, run at the next frame.   *)
(***************************************************************************)
MaxNavigations == 2   \* calls of handleNavigate that carry an anchor

Profiles == {"superviseur", "commande", "stockage", "transport"}
Views == {"dashboard", "commandes", "stockage", "transport"}

\* The calls go(view, anchor) of the cards of SupervisorDashboard.
Navigations ==
    { [view |-> "commandes", anchor |-> Null],
      [view |-> "stockage", anchor |-> Str("top5-produits-in-out")],
      [view |-> "transport", anchor |-> Str("eta-section")],
      [view |-> "transport", anchor |-> Str("anom-section")] }

\* renderSpecializedDashboard
SpecializedDashboard(profile) ==
    CASE profile = "commande" -> "CommandesDashboard"
      [] profile = "stockage" -> "StockageDashboard"
      [] profile = "transport" -> "TransportDashboard"
      [] OTHER -> "SupervisorDashboard"

\* renderDashboard
Dashboard(ix) ==
    IF ix.currentView = "dashboard"
    THEN IF ix.userProfile = "superviseur" THEN "SupervisorDashboard"
         ELSE SpecializedDashboard(ix.userProfile)
    ELSE CASE ix.currentView = "commandes" -> "CommandesDashboard"
           [] ix.currentView = "stockage" -> "StockageDashboard"
           [] ix.currentView = "transport" -> "TransportDashboard"
           [] OTHER -> SpecializedDashboard(ix.userProfile)

\* What Index returns: the login form alone, or the navbar and a dashboard.
Rendered(ix) ==
    IF ~ix.isAuthenticated
    THEN [login |-> TRUE, navbar |-> FALSE, dashboard |-> "none"]
    ELSE [login |-> FALSE, navbar |-> TRUE, dashboard |-> Dashboard(ix)]

\* The ids of the elements of a dashboard.
ElementIds(dashboard) ==
    CASE dashboard = "TransportDashboard" -> {"prediction-eta", "anom-section"}
      [] dashboard = "StockageDashboard" -> {"top5-produits-in-out"}
      [] OTHER -> {}

\* pendingAnchor.startsWith("#") ? pendingAnchor.slice(1) : pendingAnchor
AnchorId(anchor) ==
    CASE anchor = "#anom-section" -> "anom-section"
      [] anchor = "#eta-section" -> "eta-section"
      [] anchor = "#top5-produits-in-out" -> "top5-produits-in-out"
      [] OTHER -> anchor

\* The effect after the render of the state new, old being the state of the
\* previous render: it runs when currentView or pendingAnchor changed; the
\* cleanup of its previous run cancels the frame callback; it requests one
\* when there is an anchor.
Effect(old, new) ==
    IF new.currentView = old.currentView /\ new.pendingAnchor = old.pendingAnchor
    THEN new
    ELSE [new EXCEPT !.raf = IF Truthy(new.pendingAnchor)
                             THEN [scheduled |-> TRUE, id |-> AnchorId(new.pendingAnchor.s)]
                             ELSE NoFrame]

\* The view is changed, by something else than handleNavigate, while an
\* anchor waits for its frame.
Overtaken(ix, view) == ix.stale \/ (Truthy(ix.pendingAnchor) /\ view # ix.currentView)

IndexOther == <<stockageVars, carrierVars, dashboardVars, batchVars, commandesVars, stockagePageVars>>

\* LoginForm onLogin
handleLogin ==
    /\ Rendered(index).login
    /\ \E profile \in Profiles :
           index' = Effect(index, [index EXCEPT !.userProfile = profile,
                                                !.isAuthenticated = TRUE,
                                                !.currentView = "dashboard",
                                                !.stale = Overtaken(index, "dashboard")])
    /\ UNCHANGED IndexOther

\* The logout that leaves the current view as it is.
handleLogoutKeepsView ==
    /\ Rendered(index).navbar
    /\ index' = Effect(index, [index EXCEPT !.isAuthenticated = FALSE,
                                            !.userProfile = ""])
    /\ UNCHANGED IndexOther

\* Navbar onLogout
handleLogout ==
    /\ Rendered(index).navbar
    /\ index' = Effect(index, [index EXCEPT !.isAuthenticated = FALSE,
                                            !.userProfile = "",
                                            !.currentView = "dashboard",
                                            !.stale = Overtaken(index, "dashboard")])
    /\ UNCHANGED IndexOther

\* Navbar onViewChange={setCurrentView}
onViewChange ==
    /\ Rendered(index).navbar
    /\ \E view \in Views :
           index' = Effect(index, [index EXCEPT !.currentView = view,
                                                !.stale = Overtaken(index, view)])
    /\ UNCHANGED IndexOther

\* SupervisorDashboard onNavigate: setCurrentView(view); setPendingAnchor(anchor ?? null)
handleNavigate ==
    /\ Rendered(index).dashboard = "SupervisorDashboard"
    /\ \E nav \in Navigations :
           /\ Truthy(nav.anchor) => index.anchors < MaxNavigations
           /\ index' = Effect(index,
                  [index EXCEPT !.currentView = nav.view,
                                !.pendingAnchor = nav.anchor,
                                !.anchors = IF Truthy(nav.anchor) THEN @ + 1 ELSE @,
                                !.requested = nav.view,
                                !.stale = FALSE])
    /\ UNCHANGED IndexOther

\* The frame callback: getElementById(id), scrollIntoView when the element is
\* there, setPendingAnchor(null); then the render and the effect.
AnimationFrame ==
    /\ index.raf.scheduled
    /\ index' = Effect(index,
           [index EXCEPT
               !.pendingAnchor = Null,
               !.scrolls = Append(@,
                   [id |-> index.raf.id, anchor |-> index.anchors,
                    view |-> index.currentView, requested |-> index.requested,
                    found |-> index.raf.id \in ElementIds(Rendered(index).dashboard),
                    stale |-> index.stale])])
    /\ UNCHANGED IndexOther

InitIndexSpec == InitStockage /\ InitCarrierCard /\ InitDashboards /\ InitBatch /\ InitPages
NextIndex == handleLogin \/ handleLogout \/ onViewChange \/ handleNavigate \/ AnimationFrame
SpecIndex == InitIndexSpec /\ [][NextIndex]_vars

(***************************************************************************)
(* Properties of Index.                                                    *)
(***************************************************************************)
Scrolls == {index.scrolls[i] : i \in 1..Len(index.scrolls)}

\* C21: the scroll to an anchor given to handleNavigate takes place in the
\* view that was requested with it, once that view is rendered; each anchor
\* is consumed at most once and never makes the page scroll after a later
\* change of view that has nothing to do with it.
C21_AnchorScrollsOnlyItsView ==
    /\ \A s \in Scrolls :
           s.found => (s.view = s.requested /\ ~s.stale)
    /\ \A i, j \in 1..Len(index.scrolls) :
           index.scrolls[i].anchor = index.scrolls[j].anchor => i = j

\* C23: in every reachable state of Index, nobody being authenticated, the
\* profile is "" and the view is "dashboard", and Index renders the login
\* form alone, neither navbar nor dashboard; the steps that log in and log
\* out leave the view at "dashboard".
C23_LoggedOutIsReset ==
    /\ [](~index.isAuthenticated =>
              /\ index.userProfile = "" /\ index.currentView = "dashboard"
              /\ Rendered(index) = [login |-> TRUE, navbar |-> FALSE, dashboard |-> "none"])
    /\ [][(index'.isAuthenticated # index.isAuthenticated) =>
              index'.currentView = "dashboard"]_vars

\* Somebody logged in, went from the supervisor's cards to another view and
\* logged out before the frame of the anchor: the login form is shown.
C23_Witness ==
    /\ ~index.isAuthenticated /\ index.anchors > 0 /\ index.stale
    /\ Truthy(index.pendingAnchor)
    /\ Rendered(index).login /\ ~Rendered(index).navbar

(***************************************************************************)
(* CommandesDashboard and OperatorRow.  Numbers of orders and percentages  *)
(* are integers; a missing orders field is Null.                           *)
(***************************************************************************)
MaxOperators == 3    \* longest list of operators of a response
MaxPending == 2      \* refreshAll runs in flight started by the mount and the button

\* An OperatorItem of GET /operators/load_status: no barPct.
Operator(orders, pct) ==
    [name |-> "op", orders |-> orders, pct |-> pct, hasBarPct |-> FALSE, barPct |-> 0]

OrdersDrawn == {Null, Num(-3), Num(0), Num(1), Num(2), Num(7), Num(8)}
PctAt(i) == IF i % 2 = 1 THEN 150 ELSE -5
OperatorLists ==
    UNION { { [i \in 1..n |-> Operator(f[i], PctAt(i))] : f \in [1..n -> OrdersDrawn] } :
                n \in 0..MaxOperators }

\* The two lists of operators of the responses drawn where the handlers
\* interleave.
FewOperatorLists ==
    { <<>>, <<Operator(Num(3), 40), Operator(Num(7), 90), Operator(Null, 10)>> }

ForecastBodies == { Obj("today" :> Num(120)) }
SummaryBodies == { Obj(("day_orders" :> Num(12)) @@ ("week_orders" :> Num(70))) }
LoadStatusBodies(lists) == { Obj("items" :> o) : o \in lists } \cup { Obj(NoFields) }

\* x?.orders ?? 0
OrdersOf(x) == IF x.orders.t = "null" THEN 0 ELSE x.orders.n

\* The bar as wide as barPct or pct says, without the limits.
WidthUnclamped(item) == IF item.hasBarPct THEN item.barPct ELSE item.pct

\* OperatorRow: Math.max(0, Math.min(100, item.barPct ?? item.pct))
Width(item) == Max(0, Min(100, IF item.hasBarPct THEN item.barPct ELSE item.pct))

\* refreshAll: maxOrders and oScaled; Math.round of a quotient of integers
\* by a positive integer rounds the half up.
ScaleOps(o) ==
    LET maxOrders == MaxOf(<<1>> \o [i \in 1..Len(o) |-> OrdersOf(o[i])])
    IN [i \in 1..Len(o) |->
           [o[i] EXCEPT !.hasBarPct = TRUE,
                        !.barPct = (200 * OrdersOf(o[i]) + maxOrders) \div (2 * maxOrders)]]

\* The requests that fail: fetch or r.json() throws, or the response is not OK.
FailedOutcomes == {o \in Outcomes({}) : Failed(o)}

\* const j = await r.json(); if (!r.ok) throw new Error(j?.error || `GET ... ${r.status}`)
FetchJson(o, fallback) ==
    IF o.kind = "throws" THEN [threw |-> TRUE, message |-> o.message, value |-> Null]
    ELSE IF ~o.ok
    THEN [threw |-> TRUE, message |-> OrElse(Field(o.body, "error"), Str(fallback)),
          value |-> Null]
    ELSE [threw |-> FALSE, message |-> Null, value |-> o.body]

\* fetchOps: (j.items ?? []), a TypeError on a null body.
ItemsOf(j) == IF HasField(j, "items") THEN j.fields["items"] ELSE <<>>
NullBodyMessage == Str("Cannot read properties of null (reading 'items')")

Endpoints == {"/forecast", "/kpi/orders_summary", "/operators/load_status", "/supervisor/charts"}

\* await Promise.all([fetchForecast(), fetchKpi(), fetchOps(), fetchCharts()]):
\* the error of the first request that fails, or the four results.
PromiseAll(lists) ==
    { [threw |-> TRUE, message |-> FetchJson(o, "GET " \o e \o " 500").message,
       results |-> NoResults] : e \in Endpoints, o \in FailedOutcomes }
        \cup { [threw |-> TRUE, message |-> NullBodyMessage, results |-> NoResults] }
        \cup { [threw |-> FALSE, message |-> Null,
                results |-> [forecast |-> f, kpi |-> k, ops |-> ItemsOf(o), charts |-> c]] :
                   f \in ForecastBodies, k \in SummaryBodies,
                   o \in LoadStatusBodies(lists), c \in SupChartsBodies }

\* refreshAll before its await: setLoading(true); setError(null)
RefreshStarted(c) == [c EXCEPT !.loading = TRUE, !.error = Null]

\* refreshAll after its await: the four setters, or the catch; finally.
RefreshSettled(c, r) ==
    IF r.threw
    THEN [c EXCEPT !.error = OrElse(r.message, Str("Erreur inconnue")), !.loading = FALSE]
    ELSE [c EXCEPT !.forecast = r.results.forecast, !.kpi = r.results.kpi,
                   !.ops = ScaleOps(r.results.ops), !.chartData = r.results.charts,
                   !.loading = FALSE]

LastResults(calls, r) == IF r.threw THEN calls.last ELSE r.results

CommandesOther == <<stockageVars, carrierVars, dashboardVars, batchVars, indexVars, stockagePageVars>>

\* useEffect(() => { refreshAll(); }, [])
CommandesMount ==
    /\ ~commandesCalls.mounted
    /\ commandes' = RefreshStarted(commandes)
    /\ commandesCalls' = [commandesCalls EXCEPT !.mounted = TRUE, !.pending = 1]
    /\ UNCHANGED CommandesOther

\* The button "Lancer une nouvelle prevision", disabled while loading.
CommandesRefreshClick ==
    /\ commandesCalls.mounted /\ ~commandes.loading
    /\ commandesCalls.pending < MaxPending
    /\ commandes' = RefreshStarted(commandes)
    /\ commandesCalls' = [commandesCalls EXCEPT !.pending = @ + 1]
    /\ UNCHANGED CommandesOther

\* A refreshAll of the mount or of the button, after its await.
CommandesRefreshAll ==
    /\ commandesCalls.pending > 0
    /\ \E r \in PromiseAll(FewOperatorLists) :
           /\ commandes' = RefreshSettled(commandes, r)
           /\ commandesCalls' = [commandesCalls EXCEPT !.pending = @ - 1,
                                                       !.last = LastResults(commandesCalls, r)]
    /\ UNCHANGED CommandesOther

\* onChange={(e) => setFile(e.target.files?.[0] ?? null)}
setFile ==
    /\ commandesCalls.mounted
    /\ \E f \in {Null, Str("orders.csv")} : commandes' = [commandes EXCEPT !.file = f]
    /\ UNCHANGED <<commandesCalls, CommandesOther>>

\* The button "Reentrainer", disabled without a file and while training:
\* handleRetrain up to the await of the upload.
handleRetrain ==
    /\ commandesCalls.mounted
    /\ Truthy(commandes.file) /\ ~commandes.isTraining
    /\ commandes' = [commandes EXCEPT !.isTraining = TRUE, !.error = Null]
    /\ commandesCalls' = [commandesCalls EXCEPT !.retrain = "uploading"]
    /\ UNCHANGED CommandesOther

\* The failed upload without the finally of handleRetrain.
UploadFailsKeepsTraining ==
    /\ commandesCalls.retrain = "uploading"
    /\ \E o \in FailedOutcomes :
           commandes' =
               [commandes EXCEPT
                   !.error = OrElse(FetchJson(o, "POST /orders/upload 500").message,
                                    Str("Reentrainement impossible"))]
    /\ commandesCalls' = [commandesCalls EXCEPT !.retrain = "idle", !.upload = "failed"]
    /\ UNCHANGED CommandesOther

\* The upload fails (the abort of the timer included): the catch and the
\* finally of handleRetrain.
UploadFails ==
    /\ commandesCalls.retrain = "uploading"
    /\ \E o \in FailedOutcomes :
           commandes' =
               [commandes EXCEPT
                   !.error = OrElse(FetchJson(o, "POST /orders/upload 500").message,
                                    Str("Reentrainement impossible")),
                   !.isTraining = FALSE]
    /\ commandesCalls' = [commandesCalls EXCEPT !.retrain = "idle", !.upload = "failed"]
    /\ UNCHANGED CommandesOther

\* The upload succeeds: handleRetrain calls refreshAll.
UploadSucceeds ==
    /\ commandesCalls.retrain = "uploading"
    /\ commandes' = RefreshStarted(commandes)
    /\ commandesCalls' = [commandesCalls EXCEPT !.retrain = "refreshing", !.upload = "ok"]
    /\ UNCHANGED CommandesOther

\* The refreshAll of handleRetrain after its await, and the finally of
\* handleRetrain.
RetrainRefreshAll ==
    /\ commandesCalls.retrain = "refreshing"
    /\ \E r \in PromiseAll(FewOperatorLists) :
           /\ commandes' = [RefreshSettled(commandes, r) EXCEPT !.isTraining = FALSE]
           /\ commandesCalls' = [commandesCalls EXCEPT !.retrain = "idle",
                                                       !.last = LastResults(commandesCalls, r)]
    /\ UNCHANGED CommandesOther

InitCommandesSpec == InitStockage /\ InitCarrierCard /\ InitDashboards /\ InitBatch /\ InitPages
NextCommandes ==
    \/ CommandesMount \/ CommandesRefreshClick \/ CommandesRefreshAll \/ setFile
    \/ handleRetrain \/ UploadFails \/ UploadSucceeds \/ RetrainRefreshAll
SpecCommandes == InitCommandesSpec /\ [][NextCommandes]_vars

\* The upload settles (its timer aborts it after 15 minutes) and so do the
\* requests of the refreshAll that follows it.
SpecCommandesFair ==
    /\ SpecCommandes
    /\ WF_vars(UploadFails \/ UploadSucceeds)
    /\ WF_vars(RetrainRefreshAll)

\* The refreshAll of the mount, its requests answered, over the lists of
\* operators.
OperatorsRefreshAll ==
    /\ commandesCalls.pending > 0
    /\ \E r \in {a \in PromiseAll(OperatorLists) : ~a.threw} :
           /\ commandes' = RefreshSettled(commandes, r)
           /\ commandesCalls' = [commandesCalls EXCEPT !.pending = @ - 1,
                                                       !.last = LastResults(commandesCalls, r)]
    /\ UNCHANGED CommandesOther

NextOperators == CommandesMount \/ OperatorsRefreshAll
SpecOperators == InitCommandesSpec /\ [][NextOperators]_vars

(***************************************************************************)
(* Property of the bars of the operators.                                  *)
(***************************************************************************)
OperatorsLoaded ==
    commandesCalls.mounted /\ commandesCalls.pending = 0 /\ ~Truthy(commandes.error)
\* The operators of the response and the rows drawn for them.
Answered == commandesCalls.last.ops
OperatorRows == commandes.ops
Counted(x) == IF x.orders = Null THEN 0 ELSE x.orders.n
\* The largest number of orders of the response, taken as 1 at least.
MostOrders ==
    CHOOSE m \in {1} \cup {Counted(Answered[i]) : i \in 1..Len(Answered)} :
        \A k \in {1} \cup {Counted(Answered[i]) : i \in 1..Len(Answered)} : k <= m

\* C22: the bar of an operator is 0 to 100 wide; barPct is the orders of the
\* operator as a percentage of the largest number of orders of all the
\* operators (1 at least), to the nearest integer; the operator with the
\* most orders, 1 or more, gets 100; the bar follows barPct, not pct.
C22_BarWithinLimitsAndNormalized ==
    OperatorsLoaded =>
        /\ Len(OperatorRows) = Len(Answered)
        /\ \A i \in 1..Len(OperatorRows) :
               LET row == OperatorRows[i]
                   n == Counted(Answered[i])
               IN /\ Width(row) \in 0..100
                  /\ row.hasBarPct
                  /\ 2 * MostOrders * row.barPct - MostOrders <= 200 * n
                  /\ 200 * n < 2 * MostOrders * row.barPct + MostOrders
                  /\ (row.barPct \in 0..100 => Width(row) = row.barPct)
                  /\ (row.barPct < 0 => Width(row) = 0)
                  /\ (n = MostOrders /\ n >= 1 => Width(row) = 100)

\* Three operators with 8, 1 and -3 orders and pct 150, -5 and 150: the bars
\* are 100, 13 (12.5 rounded up) and 0 (barPct -37, -37.5 rounded up) wide.
C22_Witness ==
    /\ OperatorsLoaded /\ Len(OperatorRows) = 3
    /\ Counted(Answered[1]) = 8 /\ Counted(Answered[2]) = 1 /\ Counted(Answered[3]) = -3
    /\ OperatorRows[1].pct = 150 /\ OperatorRows[2].pct = -5
    /\ Width(OperatorRows[1]) = 100 /\ Width(OperatorRows[2]) = 13
    /\ OperatorRows[3].barPct = -37 /\ Width(OperatorRows[3]) = 0

(***************************************************************************)
(* Property of the retraining.                                             *)
(***************************************************************************)
Retraining == commandesCalls.retrain \in {"uploading", "refreshing"}
CommandesData == <<commandes.forecast, commandes.kpi, commandes.ops, commandes.chartData>>

\* C29: without a file handleRetrain does nothing; with a file isTraining is
\* true from the start of the upload until handleRetrain ends, and it ends
\* on every outcome; the refreshAll of handleRetrain runs only after an
\* upload that succeeded; an upload that fails sets error and leaves
\* forecast, kpi, ops and chartData as they were.
C29_RetrainLifecycle ==
    /\ [][(~Truthy(commandes.file) /\ ~Retraining) =>
              (~Retraining' /\ commandes'.isTraining = commandes.isTraining)]_vars
    /\ [](Retraining <=> commandes.isTraining)
    /\ (commandes.isTraining ~> ~commandes.isTraining)
    /\ [](commandesCalls.retrain = "refreshing" => commandesCalls.upload = "ok")
    /\ [][(commandesCalls.retrain = "uploading" /\ commandesCalls'.retrain = "idle") =>
              /\ Truthy(commandes'.error) /\ ~commandes'.isTraining
              /\ CommandesData' = CommandesData]_vars

\* An upload failed after the data was loaded: the error is shown, the
\* training is over and the data is still there.
C29_Witness ==
    /\ commandesCalls.upload = "failed" /\ commandesCalls.retrain = "idle"
    /\ Truthy(commandes.error) /\ ~commandes.isTraining /\ ~commandes.loading
    /\ commandes.forecast # Null /\ Len(commandes.ops) = 3

(***************************************************************************)
(* StockageDashboard: refreshAll, handleOptimize and the dialog of a       *)
(* location.  The state of the component is the record stockage together   *)
(* with slotting, mapItems and error.  Ratios are held in hundredths.      *)
(***************************************************************************)
MaxDetailRequests == 2   \* requests of fetchLocDetail in flight
HotspotsShown == 12

\* Bodies of the storage endpoints: of the declared shape, without their
\* list, without summary, and the JSON value null.
StorageKpisBodies ==
    { Obj(("occupancy_rate" :> Num(45)) @@ ("active_locations" :> Num(320))
              @@ ("distinct_skus" :> Num(1234)) @@ ("saturated_locations_pct" :> Num(10))),
      Null }
ZoneItem(zone, occ, n, status) ==
    [zone |-> Str(zone), occupancy_pct |-> Num(occ), n_locations |-> Num(n),
     status |-> Str(status)]
OccupancyBodies ==
    { Obj("items" :> <<ZoneItem("a", 93, 40, "critique"), ZoneItem("E", 20, 5, "ok")>>),
      Null }
Hotspot(location, reason, capacity) ==
    [location |-> location, referenceproduit |-> Null, reason |-> Str(reason),
     capacity_pct |-> capacity]
HotspotsBodies ==
    { Obj("items" :> <<Hotspot(Str("A-01"), "Rupture prevue", Num(130)),
                       Hotspot(Str("B-02"), "Surstock", Null)>>),
      Obj(NoFields) }
\* A plan is its summary (Null: no summary) and what slotting keeps of it.
Plan(summary, kept) == [isNull |-> FALSE, summary |-> summary, kept |-> kept]
NullPlan == [isNull |-> TRUE, summary |-> Null, kept |-> NoSlotting]
PlanBodies ==
    { Plan(Obj("moves" :> Num(2)), Response(<<Move("P", "B", "A", 2)>>)),
      Plan(Null, NoSample),
      NullPlan }
MapBodies == { Obj("items" :> <<Item(Num(0), Num(0), Null, Null)>>), Null }

\* The TypeError of a property read on null and on undefined.
OfNull == Str("Cannot read properties of null")
OfUndefined == Str("Cannot read properties of undefined")

\* zoneMeta
zoneMeta(z) ==
    LET code == ToUpperCase(OrElse(z, Str("?")).s)
    IN CASE code = "A" -> [nom |-> "Zone A - Fast Moving", type |-> "haute_rotation"]
         [] code = "B" -> [nom |-> "Zone B - Medium", type |-> "moyenne_rotation"]
         [] code = "C" -> [nom |-> "Zone C - Slow Moving", type |-> "basse_rotation"]
         [] code = "D" -> [nom |-> "Zone D - Reserve", type |-> "reserve"]
         [] OTHER -> [nom |-> "Zone " \o code, type |-> "reserve"]

\* The four cards: fmtPct and fmtInt of the fields of k.
StatsOf(k) ==
    [occupancy |-> ShownNumber(k, "occupancy_rate", "pct"),
     active |-> ShownNumber(k, "active_locations", "int"),
     skus |-> ShownNumber(k, "distinct_skus", "int"),
     saturated |-> ShownNumber(k, "saturated_locations_pct", "pct")]

\* (v.items || [])
ItemsOrNone(v) == IF HasField(v, "items") THEN v.fields["items"] ELSE <<>>

\* zonesUi
ZonesOf(z) ==
    [i \in 1..Len(ItemsOrNone(z)) |->
        LET it == ItemsOrNone(z)[i]
        IN [nom |-> zoneMeta(it.zone).nom, occupation |-> OrElse(it.occupancy_pct, Num(0)).n,
            emplacements |-> OrElse(it.n_locations, Num(0)).n,
            type |-> zoneMeta(it.zone).type, alert |-> it.status = Str("critique")]]

\* h.location ?? "-"
OrDash(v) == IF v.t = "null" THEN "-" ELSE v.s

\* emps: the first 12 hotspots.
EmplacementsOf(hs) ==
    [i \in 1..Min(HotspotsShown, Len(ItemsOrNone(hs))) |->
        LET h == ItemsOrNone(hs)[i]
        IN [emplacement |-> OrDash(h.location), produit |-> OrDash(h.referenceproduit),
            probleme |-> OrDash(h.reason),
            capacite |-> IF h.capacity_pct.t = "number"
                         THEN Max(0, Min(100, h.capacity_pct.n)) ELSE 0]]

\* (i.reason || "").toLowerCase().includes("rupture")
IncludesRupture(reason) == OrElse(reason, Str("")).s \in {"Rupture prevue", "rupture"}
nbRupture(hs) ==
    Cardinality({i \in 1..Len(ItemsOrNone(hs)) : IncludesRupture(ItemsOrNone(hs)[i].reason)})

\* opt, slot having its summary.
OptimisationsOf(slot, hs) ==
    << [type |-> "Slotting", n |-> Field(slot.summary, "moves"),
        priorite |-> IF OrElse(Field(slot.summary, "moves"), Num(0)).n > 0
                     THEN "haute" ELSE "moyenne"],
       [type |-> "Reassort", n |-> Num(nbRupture(hs)),
        priorite |-> IF nbRupture(hs) > 0 THEN "critique" ELSE "moyenne"] >>

\* The state of the component the handlers write.
StockageState ==
    [st |-> stockage, slotting |-> slotting, mapItems |-> mapItems, error |-> error]

\* catch: setError(e?.message || fallback); finally: setLoading(false)
Caught(s, message, fallback) ==
    [s EXCEPT !.error = OrElse(message, Str(fallback)).s, !.st.loading = FALSE]

\* The try block of refreshAll after its await, statement by statement: a
\* TypeError leaves the setters already called in effect.
RefreshAllBody(s, r) ==
    IF r.k = Null THEN Caught(s, OfNull, "Erreur lors du chargement")
    ELSE LET s1 == [s EXCEPT !.st.stockageStats = StatsOf(r.k)]
    IN IF r.z = Null THEN Caught(s1, OfNull, "Erreur lors du chargement")
    ELSE LET s2 == [s1 EXCEPT !.st.zones = ZonesOf(r.z)]
    IN IF r.hs = Null THEN Caught(s2, OfNull, "Erreur lors du chargement")
    ELSE LET s3 == [s2 EXCEPT !.st.emplacementsCritiques = EmplacementsOf(r.hs)]
    IN IF r.slot.isNull THEN Caught(s3, OfNull, "Erreur lors du chargement")
    ELSE IF r.slot.summary = Null THEN Caught(s3, OfUndefined, "Erreur lors du chargement")
    ELSE LET s4 == [s3 EXCEPT !.st.optimisations = OptimisationsOf(r.slot, r.hs),
                              !.slotting = r.slot.kept]
    IN IF r.map = Null THEN Caught(s4, OfNull, "Erreur lors du chargement")
    ELSE [s4 EXCEPT !.mapItems = ItemsOrNone(r.map), !.st.loading = FALSE]

\* The try block of handleOptimize after its await.
HandleOptimizeBody(s, r) ==
    LET s1 == [s EXCEPT !.slotting = r.slot.kept]
    IN IF r.hs = Null THEN Caught(s1, OfNull, "Erreur lors de l'optimisation")
    ELSE IF r.slot.isNull THEN Caught(s1, OfNull, "Erreur lors de l'optimisation")
    ELSE IF r.slot.summary = Null
    THEN Caught(s1, OfUndefined, "Erreur lors de l'optimisation")
    ELSE [s1 EXCEPT !.st.optimisations = OptimisationsOf(r.slot, r.hs),
                    !.st.loading = FALSE]

StorageEndpoints ==
    {"/storage/kpis", "/storage/zones/occupancy", "/storage/hotspots",
     "/storage/slotting/plan", "/storage/map"}

\* The error of the first request of a Promise.all that fails.
Rejections(endpoints) ==
    {FetchJson(o, "GET " \o e \o " 500").message : e \in endpoints, o \in FailedOutcomes}

StockageOther ==
    <<render, top5IN, top5OUT, svgPoints, carrierVars, dashboardVars, batchVars,
      indexVars, commandesVars>>

\* useEffect(() => { refreshAll(); }, []): setLoading(true); setError(null)
StockageMount ==
    /\ ~stockageCalls.mounted
    /\ stockage' = [stockage EXCEPT !.loading = TRUE]
    /\ error' = ""
    /\ stockageCalls' = [stockageCalls EXCEPT !.mounted = TRUE, !.refreshAll = @ + 1]
    /\ UNCHANGED <<slotting, mapItems, StockageOther>>

\* refreshAll after its await, a request having failed: catch and finally.
StockageRefreshFails ==
    /\ stockageCalls.refreshAll > 0
    /\ \E m \in Rejections(StorageEndpoints) :
           LET s == Caught(StockageState, m, "Erreur lors du chargement")
           IN stockage' = s.st /\ error' = s.error
    /\ stockageCalls' = [stockageCalls EXCEPT !.refreshAll = @ - 1,
                             !.last = [NoOperation EXCEPT !.op = "refreshAll", !.failed = TRUE]]
    /\ UNCHANGED <<slotting, mapItems, StockageOther>>

\* refreshAll after its await, the five requests answered.
StockageRefreshAll ==
    /\ stockageCalls.refreshAll > 0
    /\ \E k \in StorageKpisBodies, z \in OccupancyBodies, hs \in HotspotsBodies,
          slot \in PlanBodies, map \in MapBodies :
           LET r == [op |-> "refreshAll", failed |-> FALSE,
                     k |-> k, z |-> z, hs |-> hs, slot |-> slot, map |-> map]
               s == RefreshAllBody(StockageState, r)
           IN /\ stockage' = s.st /\ slotting' = s.slotting
              /\ mapItems' = s.mapItems /\ error' = s.error
              /\ stockageCalls' = [stockageCalls EXCEPT !.refreshAll = @ - 1, !.last = r]
    /\ UNCHANGED StockageOther

\* The handleOptimize that does not set loading.
handleOptimizeWithoutLoading ==
    /\ stockageCalls.mounted /\ ~stockage.loading
    /\ stockageCalls' = [stockageCalls EXCEPT !.handleOptimize = @ + 1]
    /\ UNCHANGED <<stockage, slotting, mapItems, error, StockageOther>>

\* The buttons "Optimiser slotting" and "Voir" (Reassort), disabled while
\* loading: handleOptimize up to its await.
handleOptimize ==
    /\ stockageCalls.mounted /\ ~stockage.loading
    /\ stockage' = [stockage EXCEPT !.loading = TRUE]
    /\ stockageCalls' = [stockageCalls EXCEPT !.handleOptimize = @ + 1]
    /\ UNCHANGED <<slotting, mapItems, error, StockageOther>>

\* handleOptimize after its await, a request having failed.
StockageOptimizeFails ==
    /\ stockageCalls.handleOptimize > 0
    /\ \E m \in Rejections({"/storage/slotting/plan", "/storage/hotspots"}) :
           LET s == Caught(StockageState, m, "Erreur lors de l'optimisation")
           IN stockage' = s.st /\ error' = s.error
    /\ stockageCalls' = [stockageCalls EXCEPT !.handleOptimize = @ - 1,
                             !.last = [NoOperation EXCEPT !.op = "handleOptimize",
                                                          !.failed = TRUE]]
    /\ UNCHANGED <<slotting, mapItems, StockageOther>>

\* handleOptimize after its await, the two requests answered.
StockageOptimized ==
    /\ stockageCalls.handleOptimize > 0
    /\ \E slot \in PlanBodies, hs \in HotspotsBodies \cup {Null} :
           LET r == [NoOperation EXCEPT !.op = "handleOptimize", !.hs = hs, !.slot = slot]
               s == HandleOptimizeBody(StockageState, r)
           IN /\ stockage' = s.st /\ slotting' = s.slotting /\ error' = s.error
              /\ stockageCalls' = [stockageCalls EXCEPT !.handleOptimize = @ - 1, !.last = r]
    /\ UNCHANGED <<mapItems, StockageOther>>

\* The button "Voir" of a critical location, the dialog being closed:
\* setSelectedLoc(emp.emplacement); fetchLocDetail(emp.emplacement)
Voir ==
    /\ ~Truthy(stockage.selectedLoc)
    /\ stockageCalls.details["A-01"] + stockageCalls.details["B-02"] < MaxDetailRequests
    /\ \E i \in 1..Len(stockage.emplacementsCritiques) :
           LET loc == stockage.emplacementsCritiques[i].emplacement
           IN /\ stockage' = [stockage EXCEPT !.selectedLoc = Str(loc)]
              /\ stockageCalls' = [stockageCalls EXCEPT !.details[loc] = @ + 1]
    /\ UNCHANGED <<slotting, mapItems, error, StockageOther>>

\* Dialog onOpenChange: setSelectedLoc(null); setLocDetails(null)
CloseDialog ==
    /\ Truthy(stockage.selectedLoc)
    /\ stockage' = [stockage EXCEPT !.selectedLoc = Null, !.locDetails = Null]
    /\ UNCHANGED <<stockageCalls, slotting, mapItems, error, StockageOther>>

\* GET /storage/location/{loc}
LocationDetail(loc) == Obj(("location" :> Str(loc)) @@ ("on_hand" :> Num(5)))

\* fetchLocDetail after its awaits: if (r.ok) setLocDetails(j); a request
\* that fails sets nothing.
fetchLocDetail ==
    /\ \E loc \in Locations :
           /\ stockageCalls.details[loc] > 0
           /\ stockageCalls' = [stockageCalls EXCEPT !.details[loc] = @ - 1]
           /\ \E o \in Outcomes({LocationDetail(loc)}) :
                  stockage' = IF o.kind = "http" /\ o.ok
                              THEN [stockage EXCEPT !.locDetails = o.body]
                              ELSE stockage
    /\ UNCHANGED <<slotting, mapItems, error, StockageOther>>

InitStockageSpec == InitStockage /\ InitCarrierCard /\ InitDashboards /\ InitBatch /\ InitPages
NextStockage ==
    \/ StockageMount \/ StockageRefreshFails \/ StockageRefreshAll
    \/ handleOptimize \/ StockageOptimizeFails \/ StockageOptimized
    \/ Voir \/ CloseDialog \/ fetchLocDetail
SpecStockage == InitStockageSpec /\ [][NextStockage]_vars

\* The effect of the mount runs and the requests settle.
SpecStockageFair ==
    /\ SpecStockage
    /\ WF_vars(StockageMount)
    /\ WF_vars(StockageRefreshFails \/ StockageRefreshAll)
    /\ WF_vars(StockageOptimizeFails \/ StockageOptimized)

\* ---- Vocabulary of the claims about StockageDashboard ----
InFlight == stockageCalls.refreshAll + stockageCalls.handleOptimize
Refreshed == stockageCalls.refreshAll > 0 /\ stockageCalls'.refreshAll = stockageCalls.refreshAll - 1
Sextet == <<stockage.stockageStats, stockage.zones, stockage.emplacementsCritiques,
            stockage.optimisations, slotting, mapItems>>
AllFromRefresh(r) ==
    /\ r.k # Null /\ r.z # Null /\ r.hs # Null /\ r.map # Null
    /\ ~r.slot.isNull /\ r.slot.summary # Null
    /\ stockage'.stockageStats = StatsOf(r.k)
    /\ stockage'.zones = ZonesOf(r.z)
    /\ stockage'.emplacementsCritiques = EmplacementsOf(r.hs)
    /\ stockage'.optimisations = OptimisationsOf(r.slot, r.hs)
    /\ slotting' = r.slot.kept
    /\ mapItems' = ItemsOrNone(r.map)

\* C24: refreshAll is all-or-nothing. The step that ends a refreshAll of which
\* a request failed leaves stockageStats, zones, emplacementsCritiques,
\* optimisations, slotting and mapItems as they were, sets error and resets
\* loading; the step that ends a refreshAll whose five requests were answered
\* sets the six from the bodies of that refresh (or, read leniently, none).
C24_RefreshAllOrNothing ==
    [][Refreshed =>
          /\ ~stockage'.loading
          /\ IF stockageCalls'.last.failed
             THEN UNCHANGED Sextet /\ error' # ""
             ELSE \/ AllFromRefresh(stockageCalls'.last)
                  \/ UNCHANGED Sextet /\ error' # ""]_vars

\* C25: at most one of refreshAll and handleOptimize is in flight; loading is
\* true as long as one is; handleOptimize starts only while loading is false;
\* and an operation in flight leads to loading being false.
C25_OneOperationUnderLoading ==
    /\ [](InFlight <= 1)
    /\ [](InFlight > 0 => stockage.loading)
    /\ [][stockageCalls'.handleOptimize > stockageCalls.handleOptimize
              => ~stockage.loading /\ stockage'.loading]_vars
    /\ (InFlight > 0 ~> ~stockage.loading)

\* C25 witness: handleOptimize is in flight, with loading true, started after
\* a handleOptimize that failed had reset loading.
C25_Witness ==
    /\ stockageCalls.handleOptimize = 1 /\ stockageCalls.refreshAll = 0
    /\ stockage.loading
    /\ stockageCalls.last.op = "handleOptimize" /\ stockageCalls.last.failed
    /\ error # ""

\* C27: whenever locDetails is not null it is the detail of the selected
\* location, and with no location selected locDetails is null.
C27_DetailsOfSelectedLocation ==
    stockage.locDetails # Null =>
        /\ stockage.selectedLoc # Null
        /\ Field(stockage.locDetails, "location") = stockage.selectedLoc

====
